---- MODULE Spec2Model ----
(***************************************************************************)
(* Model of the parameter normalization and contamination classification   *)
(* library of ecodata-bunrensk-data (02_scripts/lib): the threshold        *)
(* classifier and sample aggregator of lib/thresholds.py, the derived      *)
(* classification and decision tables of lib/dataframes.py and             *)
(* lib/schema.py, and the classifier and parameter normalizer of           *)
(* lib/chemistry.py.                                                       *)
(***************************************************************************)
EXTENDS Integers, Sequences, FiniteSets, TLC

VARIABLES
  pc,               \* position of the run: "idle", "classified", "loop", "returned", "done"
  parameter,        \* get_tilstandsklasse: argument `parameter` of the last call
  value,            \* get_tilstandsklasse: argument `value` of the last call
  tk,               \* get_tilstandsklasse: value returned by the last call
  results,          \* get_sample_tilstandsklasse: the argument dict parameter -> value
  order,            \* iteration order of results.items() (the dict's insertion order)
  idx,              \* number of items of results.items() the loop has consumed
  worst_class,      \* get_sample_tilstandsklasse: local worst_class
  limiting_params,  \* get_sample_tilstandsklasse: local limiting_params (a list)
  out,              \* the value returned by the last table/classification routine
  normalizer,       \* the function of lib/chemistry.py the normalizer run calls
  raw_label,        \* argument of the first call
  code,             \* value returned by the first call
  how,              \* how the label of the second call was made from the first
  raw_label2,       \* argument of the second call
  code2,            \* value returned by the second call
  parser,           \* the value parser or result builder that was called
  raw_value,        \* the raw value text it was called with
  parsed,           \* what it returned
  converter,        \* the unit converter that was called
  amount,           \* its argument value
  from_label,       \* its argument from_unit
  to_label,         \* its argument to_unit
  converted,        \* what it returned
  back,             \* what the conversion of the result back returned
  creator,          \* the table constructor that was called
  input_rows,       \* its argument data
  validating,       \* its argument validate
  frame,            \* what it returned
  sample_rows,      \* the rows of the sample that were read
  run,              \* which time the rows are processed
  normalized,       \* what normalize_results_df returned
  records,          \* the records of the runs that have returned
  listing,          \* the project scripts, in the order the directory lists them
  behaviour,        \* what loading and running each script does
  todo,             \* the scripts run_all has still to go through
  attempts          \* the scripts run_project has loaded, with what came of it

tk_vars == <<parameter, value, tk, results, order, idx, worst_class,
             limiting_params, out>>

norm_vars == <<normalizer, raw_label, code, how, raw_label2, code2>>

parse_vars == <<parser, raw_value, parsed>>

unit_vars == <<converter, amount, from_label, to_label, converted, back>>

frame_vars == <<creator, input_rows, validating, frame>>

pipe_vars == <<sample_rows, run, normalized, records>>

runner_vars == <<listing, behaviour, todo, attempts>>

vars == <<pc, tk_vars, norm_vars, parse_vars, unit_vars, frame_vars, pipe_vars,
         runner_vars>>

\* the variables the actions of one part of the library leave alone
rest_of_tk == <<norm_vars, parse_vars, unit_vars, frame_vars, pipe_vars, runner_vars>>

rest_of_norm == <<tk_vars, parse_vars, unit_vars, frame_vars, pipe_vars, runner_vars>>

rest_of_parse == <<tk_vars, norm_vars, unit_vars, frame_vars, pipe_vars, runner_vars>>

rest_of_unit == <<tk_vars, norm_vars, parse_vars, frame_vars, pipe_vars, runner_vars>>

rest_of_frame == <<tk_vars, norm_vars, parse_vars, unit_vars, pipe_vars, runner_vars>>

rest_of_pipe == <<tk_vars, norm_vars, parse_vars, unit_vars, frame_vars, runner_vars>>

rest_of_runner == <<tk_vars, norm_vars, parse_vars, unit_vars, frame_vars, pipe_vars>>

----------------------------------------------------------------------------
(* Python values.  None is the empty tuple and an Optional value v that is  *)
(* present is the value itself (a non-empty tuple or a number inside one).  *)
None == <<>>

Some(v) == <<v>>

(* Concentrations are decimal numbers with five decimals: Dec(w, f) is      *)
(* w + f / 100000.  Every literal of the threshold tables is exactly such   *)
(* a number; comparison is the comparison of the numbers they denote.       *)
Frac == 100000

Dec(w, f) == <<w, f>>

\* a <= b
LE(a, b) == a[1] < b[1] \/ (a[1] = b[1] /\ a[2] <= b[2])

\* a > b
GT(a, b) == ~LE(a, b)

\* the next and the previous representable number
Up(a) == IF a[2] = Frac - 1 THEN <<a[1] + 1, 0>> ELSE <<a[1], a[2] + 1>>

Down(a) == IF a[2] = 0 THEN <<a[1] - 1, Frac - 1>> ELSE <<a[1], a[2] - 1>>

Zero == Dec(0, 0)

----------------------------------------------------------------------------
(* lib/thresholds.py: TILSTANDSKLASSER (the display name of each entry is   *)
(* left out: no routine reads it).                                          *)
TILSTANDSKLASSER ==
  "As" :> [TK1 |-> Dec(8, 0), TK2 |-> Dec(20, 0), TK3 |-> Dec(50, 0), TK4 |-> Dec(600, 0), TK5 |-> Dec(1000, 0)]
  @@ "Pb" :> [TK1 |-> Dec(60, 0), TK2 |-> Dec(100, 0), TK3 |-> Dec(300, 0), TK4 |-> Dec(700, 0), TK5 |-> Dec(2500, 0)]
  @@ "Cd" :> [TK1 |-> Dec(1, 50000), TK2 |-> Dec(10, 0), TK3 |-> Dec(15, 0), TK4 |-> Dec(30, 0), TK5 |-> Dec(1000, 0)]
  @@ "Cu" :> [TK1 |-> Dec(100, 0), TK2 |-> Dec(200, 0), TK3 |-> Dec(1000, 0), TK4 |-> Dec(8500, 0), TK5 |-> Dec(25000, 0)]
  @@ "Cr_total" :> [TK1 |-> Dec(50, 0), TK2 |-> Dec(200, 0), TK3 |-> Dec(500, 0), TK4 |-> Dec(2800, 0), TK5 |-> Dec(25000, 0)]
  @@ "Cr_VI" :> [TK1 |-> Dec(2, 0), TK2 |-> Dec(5, 0), TK3 |-> Dec(20, 0), TK4 |-> Dec(80, 0), TK5 |-> Dec(1000, 0)]
  @@ "Hg" :> [TK1 |-> Dec(1, 0), TK2 |-> Dec(2, 0), TK3 |-> Dec(4, 0), TK4 |-> Dec(10, 0), TK5 |-> Dec(1000, 0)]
  @@ "Ni" :> [TK1 |-> Dec(60, 0), TK2 |-> Dec(135, 0), TK3 |-> Dec(200, 0), TK4 |-> Dec(1200, 0), TK5 |-> Dec(2500, 0)]
  @@ "Zn" :> [TK1 |-> Dec(200, 0), TK2 |-> Dec(500, 0), TK3 |-> Dec(1000, 0), TK4 |-> Dec(5000, 0), TK5 |-> Dec(25000, 0)]
  @@ "Cyanid_fri" :> [TK1 |-> Dec(1, 0), TK2 |-> None, TK3 |-> None, TK4 |-> None, TK5 |-> None]
  @@ "PCB7" :> [TK1 |-> Dec(0, 1000), TK2 |-> Dec(0, 50000), TK3 |-> Dec(1, 0), TK4 |-> Dec(5, 0), TK5 |-> Dec(50, 0)]
  @@ "Lindan" :> [TK1 |-> Dec(0, 100), TK2 |-> None, TK3 |-> None, TK4 |-> None, TK5 |-> None]
  @@ "DDT" :> [TK1 |-> Dec(0, 4000), TK2 |-> Dec(4, 0), TK3 |-> Dec(12, 0), TK4 |-> Dec(30, 0), TK5 |-> Dec(50, 0)]
  @@ "Monoklorbenzen" :> [TK1 |-> Dec(0, 3000), TK2 |-> None, TK3 |-> None, TK4 |-> None, TK5 |-> None]
  @@ "Diklorbenzen_12" :> [TK1 |-> Dec(0, 10000), TK2 |-> None, TK3 |-> None, TK4 |-> None, TK5 |-> None]
  @@ "Diklorbenzen_14" :> [TK1 |-> Dec(0, 7000), TK2 |-> None, TK3 |-> None, TK4 |-> None, TK5 |-> None]
  @@ "Triklorbenzen_124" :> [TK1 |-> Dec(0, 5000), TK2 |-> None, TK3 |-> None, TK4 |-> None, TK5 |-> None]
  @@ "Triklorbenzen_123" :> [TK1 |-> Dec(0, 1000), TK2 |-> None, TK3 |-> None, TK4 |-> None, TK5 |-> None]
  @@ "Triklorbenzen_135" :> [TK1 |-> Dec(0, 1000), TK2 |-> None, TK3 |-> None, TK4 |-> None, TK5 |-> None]
  @@ "Tetraklorbenzen_1245" :> [TK1 |-> Dec(0, 5000), TK2 |-> None, TK3 |-> None, TK4 |-> None, TK5 |-> None]
  @@ "Pentaklorbenzen" :> [TK1 |-> Dec(0, 10000), TK2 |-> None, TK3 |-> None, TK4 |-> None, TK5 |-> None]
  @@ "Heksaklorbenzen" :> [TK1 |-> Dec(0, 1000), TK2 |-> None, TK3 |-> None, TK4 |-> None, TK5 |-> None]
  @@ "Diklormetan" :> [TK1 |-> Dec(0, 6000), TK2 |-> None, TK3 |-> None, TK4 |-> None, TK5 |-> None]
  @@ "Triklormetan" :> [TK1 |-> Dec(0, 2000), TK2 |-> None, TK3 |-> None, TK4 |-> None, TK5 |-> None]
  @@ "Trikloreten" :> [TK1 |-> Dec(0, 10000), TK2 |-> Dec(0, 20000), TK3 |-> Dec(0, 60000), TK4 |-> Dec(0, 80000), TK5 |-> Dec(1000, 0)]
  @@ "Tetraklormetan" :> [TK1 |-> Dec(0, 2000), TK2 |-> None, TK3 |-> None, TK4 |-> None, TK5 |-> None]
  @@ "Tetrakloreten" :> [TK1 |-> Dec(0, 1000), TK2 |-> None, TK3 |-> None, TK4 |-> None, TK5 |-> None]
  @@ "Dikloretan_12" :> [TK1 |-> Dec(0, 1000), TK2 |-> None, TK3 |-> None, TK4 |-> None, TK5 |-> None]
  @@ "Dibrometan_12" :> [TK1 |-> Dec(0, 400), TK2 |-> None, TK3 |-> None, TK4 |-> None, TK5 |-> None]
  @@ "Trikloretan_111" :> [TK1 |-> Dec(0, 10000), TK2 |-> None, TK3 |-> None, TK4 |-> None, TK5 |-> None]
  @@ "Trikloretan_112" :> [TK1 |-> Dec(0, 1000), TK2 |-> None, TK3 |-> None, TK4 |-> None, TK5 |-> None]
  @@ "Fenol" :> [TK1 |-> Dec(0, 10000), TK2 |-> Dec(4, 0), TK3 |-> Dec(40, 0), TK4 |-> Dec(400, 0), TK5 |-> Dec(25000, 0)]
  @@ "Klorfenol_sum" :> [TK1 |-> Dec(0, 6000), TK2 |-> None, TK3 |-> None, TK4 |-> None, TK5 |-> None]
  @@ "Pentaklorfenol" :> [TK1 |-> Dec(0, 600), TK2 |-> None, TK3 |-> None, TK4 |-> None, TK5 |-> None]
  @@ "PAH16" :> [TK1 |-> Dec(2, 0), TK2 |-> Dec(8, 0), TK3 |-> Dec(50, 0), TK4 |-> Dec(150, 0), TK5 |-> Dec(2500, 0)]
  @@ "Naftalen" :> [TK1 |-> Dec(0, 80000), TK2 |-> None, TK3 |-> None, TK4 |-> None, TK5 |-> None]
  @@ "Fluoren" :> [TK1 |-> Dec(0, 80000), TK2 |-> None, TK3 |-> None, TK4 |-> None, TK5 |-> None]
  @@ "Fluoranten" :> [TK1 |-> Dec(1, 0), TK2 |-> None, TK3 |-> None, TK4 |-> None, TK5 |-> None]
  @@ "Pyren" :> [TK1 |-> Dec(1, 0), TK2 |-> None, TK3 |-> None, TK4 |-> None, TK5 |-> None]
  @@ "BaP" :> [TK1 |-> Dec(0, 10000), TK2 |-> Dec(0, 50000), TK3 |-> Dec(5, 0), TK4 |-> Dec(15, 0), TK5 |-> Dec(50, 0)]
  @@ "Benzen" :> [TK1 |-> Dec(0, 1000), TK2 |-> Dec(0, 1500), TK3 |-> Dec(0, 4000), TK4 |-> Dec(0, 5000), TK5 |-> Dec(1000, 0)]
  @@ "Toluen" :> [TK1 |-> Dec(0, 30000), TK2 |-> None, TK3 |-> None, TK4 |-> None, TK5 |-> None]
  @@ "Etylbenzen" :> [TK1 |-> Dec(0, 20000), TK2 |-> None, TK3 |-> None, TK4 |-> None, TK5 |-> None]
  @@ "Xylen" :> [TK1 |-> Dec(0, 20000), TK2 |-> None, TK3 |-> None, TK4 |-> None, TK5 |-> None]
  @@ "C5_C6" :> [TK1 |-> Dec(7, 0), TK2 |-> None, TK3 |-> None, TK4 |-> None, TK5 |-> None]
  @@ "C6_C8" :> [TK1 |-> Dec(7, 0), TK2 |-> None, TK3 |-> None, TK4 |-> None, TK5 |-> None]
  @@ "C8_C10" :> [TK1 |-> Dec(10, 0), TK2 |-> Dec(10, 0), TK3 |-> Dec(40, 0), TK4 |-> Dec(50, 0), TK5 |-> Dec(2000, 0)]
  @@ "C10_C12" :> [TK1 |-> Dec(50, 0), TK2 |-> Dec(60, 0), TK3 |-> Dec(130, 0), TK4 |-> Dec(300, 0), TK5 |-> Dec(2000, 0)]
  @@ "C12_C35" :> [TK1 |-> Dec(100, 0), TK2 |-> Dec(300, 0), TK3 |-> Dec(600, 0), TK4 |-> Dec(2000, 0), TK5 |-> Dec(20000, 0)]
  @@ "MTBE" :> [TK1 |-> Dec(0, 20000), TK2 |-> None, TK3 |-> None, TK4 |-> None, TK5 |-> None]
  @@ "Tetraetylbly" :> [TK1 |-> Dec(0, 100), TK2 |-> None, TK3 |-> None, TK4 |-> None, TK5 |-> None]
  @@ "PBDE_99" :> [TK1 |-> Dec(0, 8000), TK2 |-> None, TK3 |-> None, TK4 |-> None, TK5 |-> None]
  @@ "PBDE_209" :> [TK1 |-> Dec(0, 200), TK2 |-> None, TK3 |-> None, TK4 |-> None, TK5 |-> None]
  @@ "PFOS" :> [TK1 |-> Dec(0, 10000), TK2 |-> None, TK3 |-> None, TK4 |-> None, TK5 |-> None]
  @@ "DEHP" :> [TK1 |-> Dec(2, 80000), TK2 |-> Dec(25, 0), TK3 |-> Dec(40, 0), TK4 |-> Dec(60, 0), TK5 |-> Dec(5000, 0)]
  @@ "Dioksiner" :> [TK1 |-> Dec(0, 1), TK2 |-> Dec(0, 2), TK3 |-> Dec(0, 10), TK4 |-> Dec(0, 36), TK5 |-> Dec(0, 1500)]
  @@ "TBT" :> [TK1 |-> Dec(0, 1500), TK2 |-> None, TK3 |-> None, TK4 |-> None, TK5 |-> None]
  @@ "TPHT" :> [TK1 |-> Dec(0, 1500), TK2 |-> None, TK3 |-> None, TK4 |-> None, TK5 |-> None]

NORMVERDIER ==
  "As" :> Dec(8, 0)
  @@ "Pb" :> Dec(60, 0)
  @@ "Cd" :> Dec(1, 50000)
  @@ "Hg" :> Dec(1, 0)
  @@ "Cu" :> Dec(100, 0)
  @@ "Zn" :> Dec(200, 0)
  @@ "Cr_total" :> Dec(50, 0)
  @@ "Cr_VI" :> Dec(2, 0)
  @@ "Ni" :> Dec(60, 0)
  @@ "Cyanid_fri" :> Dec(1, 0)
  @@ "PCB7" :> Dec(0, 1000)
  @@ "Lindan" :> Dec(0, 100)
  @@ "DDT" :> Dec(0, 4000)
  @@ "Monoklorbenzen" :> Dec(0, 3000)
  @@ "Diklorbenzen_12" :> Dec(0, 10000)
  @@ "Diklorbenzen_14" :> Dec(0, 7000)
  @@ "Triklorbenzen_124" :> Dec(0, 5000)
  @@ "Triklorbenzen_123" :> Dec(0, 1000)
  @@ "Triklorbenzen_135" :> Dec(0, 1000)
  @@ "Tetraklorbenzen_1245" :> Dec(0, 5000)
  @@ "Pentaklorbenzen" :> Dec(0, 10000)
  @@ "Heksaklorbenzen" :> Dec(0, 1000)
  @@ "Diklormetan" :> Dec(0, 6000)
  @@ "Triklormetan" :> Dec(0, 2000)
  @@ "Trikloreten" :> Dec(0, 10000)
  @@ "Tetraklormetan" :> Dec(0, 2000)
  @@ "Tetrakloreten" :> Dec(0, 1000)
  @@ "Dikloretan_12" :> Dec(0, 1000)
  @@ "Dibrometan_12" :> Dec(0, 400)
  @@ "Trikloretan_111" :> Dec(0, 10000)
  @@ "Trikloretan_112" :> Dec(0, 1000)
  @@ "Fenol" :> Dec(0, 10000)
  @@ "Klorfenol_sum" :> Dec(0, 6000)
  @@ "Pentaklorfenol" :> Dec(0, 600)
  @@ "PAH16" :> Dec(2, 0)
  @@ "Naftalen" :> Dec(0, 80000)
  @@ "Fluoren" :> Dec(0, 80000)
  @@ "Fluoranten" :> Dec(1, 0)
  @@ "Pyren" :> Dec(1, 0)
  @@ "BaP" :> Dec(0, 10000)
  @@ "Benzen" :> Dec(0, 1000)
  @@ "Toluen" :> Dec(0, 30000)
  @@ "Etylbenzen" :> Dec(0, 20000)
  @@ "Xylen" :> Dec(0, 20000)
  @@ "C5_C6" :> Dec(7, 0)
  @@ "C6_C8" :> Dec(7, 0)
  @@ "C8_C10" :> Dec(10, 0)
  @@ "C10_C12" :> Dec(50, 0)
  @@ "C12_C35" :> Dec(100, 0)
  @@ "MTBE" :> Dec(0, 20000)
  @@ "Tetraetylbly" :> Dec(0, 100)
  @@ "PBDE_99" :> Dec(0, 8000)
  @@ "PBDE_209" :> Dec(0, 200)
  @@ "PFOS" :> Dec(0, 10000)
  @@ "DEHP" :> Dec(2, 80000)
  @@ "Dioksiner" :> Dec(0, 1)
  @@ "TBT" :> Dec(0, 1500)
  @@ "TPHT" :> Dec(0, 1500)


\* lib/thresholds.py: exceeds_normverdi(parameter, value)
exceeds_normverdi(p, v) ==
  IF p \notin DOMAIN NORMVERDIER THEN None
  ELSE Some(GT(v, NORMVERDIER[p]))

\* get_tilstandsklasse with the TK2 boundary excluded (< for <=)
get_tilstandsklasse_exclusive(p, v) ==
  IF p \notin DOMAIN TILSTANDSKLASSER THEN None
  ELSE LET thresholds == TILSTANDSKLASSER[p]
       IN  IF LE(v, thresholds.TK1) THEN Some(1)
           ELSE IF thresholds.TK2 = None THEN None
           ELSE IF ~LE(thresholds.TK2, v) THEN Some(2)
           ELSE IF LE(v, thresholds.TK3) THEN Some(3)
           ELSE IF LE(v, thresholds.TK4) THEN Some(4)
           ELSE Some(5)

\* get_tilstandsklasse without the branch for entries that define only TK1:
\* a value above TK1 falls through to the last class
get_tilstandsklasse_no_tk1_only(p, v) ==
  IF p \notin DOMAIN TILSTANDSKLASSER THEN None
  ELSE LET thresholds == TILSTANDSKLASSER[p]
       IN  IF LE(v, thresholds.TK1) THEN Some(1)
           ELSE IF thresholds.TK2 = None THEN Some(5)
           ELSE IF LE(v, thresholds.TK2) THEN Some(2)
           ELSE IF LE(v, thresholds.TK3) THEN Some(3)
           ELSE IF LE(v, thresholds.TK4) THEN Some(4)
           ELSE Some(5)

\* lib/thresholds.py: get_tilstandsklasse(parameter, value)
\* the classifier with a parameter the table does not hold put in class 5
get_tilstandsklasse_unknown_worst(p, v) ==
  IF p \notin DOMAIN TILSTANDSKLASSER THEN Some(5)
  ELSE LET thresholds == TILSTANDSKLASSER[p]
       IN  IF LE(v, thresholds.TK1) THEN Some(1)
           ELSE IF thresholds.TK2 = None THEN None
           ELSE IF LE(v, thresholds.TK2) THEN Some(2)
           ELSE IF LE(v, thresholds.TK3) THEN Some(3)
           ELSE IF LE(v, thresholds.TK4) THEN Some(4)
           ELSE Some(5)

get_tilstandsklasse(p, v) ==
  IF p \notin DOMAIN TILSTANDSKLASSER THEN None
  ELSE LET thresholds == TILSTANDSKLASSER[p]
       IN  IF LE(v, thresholds.TK1) THEN Some(1)
           ELSE IF thresholds.TK2 = None THEN None
           ELSE IF LE(v, thresholds.TK2) THEN Some(2)
           ELSE IF LE(v, thresholds.TK3) THEN Some(3)
           ELSE IF LE(v, thresholds.TK4) THEN Some(4)
           ELSE Some(5)

----------------------------------------------------------------------------
(* Inputs.  The classifier is applied to every key of the threshold table   *)
(* and to a code the table does not hold, at every boundary of the entry,   *)
(* the numbers next to it, and the values of the documented examples.       *)
UnknownParameter == "Fe"

Parameters == DOMAIN TILSTANDSKLASSER \cup {UnknownParameter}

Tiers == {"TK1", "TK2", "TK3", "TK4", "TK5"}

Boundaries(p) ==
  IF p \in DOMAIN TILSTANDSKLASSER
  THEN {TILSTANDSKLASSER[p][t] : t \in Tiers} \ {None}
  ELSE {}

ExampleValues ==
  {Zero, Dec(5, 0), Dec(8, 1000), Dec(51, 90000), Dec(100, 0), Dec(1500, 0)}

Values(p) ==
  Boundaries(p) \cup {Up(b) : b \in Boundaries(p)}
                \cup {Down(b) : b \in Boundaries(p)} \cup ExampleValues

(* A sample is a dict of at most MaxParams parameters, taken from metals    *)
(* with all five boundaries, a parameter with only TK1 and a parameter the  *)
(* table does not hold; each value is a boundary or lies above TK4 (TK1).   *)
MaxParams == 3

SampleParameters == {"As", "Cu", "Hg", "Toluen", UnknownParameter}

SampleValues(p) ==
  IF p \notin DOMAIN TILSTANDSKLASSER THEN {Dec(100, 0)}
  ELSE LET th == TILSTANDSKLASSER[p]
       IN  IF th.TK2 = None THEN {th.TK1, Dec(100, 0)}
           ELSE {th.TK1, th.TK2, th.TK3, th.TK4, Up(th.TK4)}
                  \cup (IF p = "As" THEN {Dec(51, 90000)} ELSE {})

Samples ==
  UNION {[D -> UNION {SampleValues(p) : p \in D}] : D \in SUBSET SampleParameters}

ValidSample(r) ==
  /\ Cardinality(DOMAIN r) <= MaxParams
  /\ \A p \in DOMAIN r : r[p] \in SampleValues(p)

\* the orders in which a dict with the keys D can be iterated
Orders(D) ==
  {s \in [1..Cardinality(D) -> D] : \A a, b \in DOMAIN s : a # b => s[a] # s[b]}

----------------------------------------------------------------------------
(* pandas tables.  A DataFrame is its column list and its rows (records     *)
(* over the columns); an operation that raises returns KeyError instead.    *)
KeyError == [raised |-> "KeyError", columns |-> << >>, rows |-> << >>]

\* pd.DataFrame(rows) for a list of dicts that all have the keys `keys`:
\* the columns are the keys of the dicts, and there are none for an empty list
DataFrame(rows, keys) ==
  [raised |-> "", columns |-> IF Len(rows) = 0 THEN << >> ELSE keys, rows |-> rows]

\* pd.DataFrame(columns=cols)
EmptyDataFrame(cols) == [raised |-> "", columns |-> cols, rows |-> << >>]

\* df[cols]: a KeyError when a column of cols is not a column of df
GetColumns(df, cols) ==
  IF \A k \in DOMAIN cols : \E j \in DOMAIN df.columns : df.columns[j] = cols[k]
  THEN [raised |-> "", columns |-> cols,
        rows |-> [k \in DOMAIN df.rows |->
                    [c \in {cols[j] : j \in DOMAIN cols} |-> df.rows[k][c]]]]
  ELSE KeyError

\* Series.unique(): the distinct values in order of first appearance
RECURSIVE Unique(_)
Unique(s) ==
  IF Len(s) = 0 THEN << >>
  ELSE LET front == Unique(SubSeq(s, 1, Len(s) - 1))
           last == s[Len(s)]
       IN  IF \E k \in DOMAIN front : front[k] = last THEN front
           ELSE Append(front, last)

\* Series.max() of the tilstandsklasse column: missing values are skipped and
\* the result is missing (NaN) when nothing is left
ColumnMax(rows) ==
  LET present == {rows[k].tilstandsklasse[1] :
                    k \in {j \in DOMAIN rows : rows[j].tilstandsklasse # None}}
  IN  IF present = {} THEN None
      ELSE Some(CHOOSE m \in present : \A x \in present : x <= m)

\* lib/schema.py: CLASSIFICATIONS_COLUMNS, DECISIONS_COLUMNS
CLASSIFICATIONS_COLUMNS ==
  <<"sample_id", "tilstandsklasse", "limiting_parameters", "classification_basis">>

DECISIONS_COLUMNS ==
  <<"sample_id", "decision", "decision_remarks", "destination", "notes">>

\* results_df[results_df['sample_id'] == sample_id]
RowsOfSample(results_df, sample_id) ==
  SelectSeq(results_df.rows, LAMBDA r : r.sample_id = sample_id)

(* lib/dataframes.py: create_classifications_df.  limiting_parameters is    *)
(* ', '.join(sorted(limiting)), held here as the set of the joined codes:   *)
(* the string is empty exactly when the set is.                             *)
create_classifications_df(samples_df, results_df, classification_basis) ==
  IF Len(results_df.rows) = 0
     \/ ~ \E j \in DOMAIN results_df.columns : results_df.columns[j] = "tilstandsklasse"
  THEN EmptyDataFrame(CLASSIFICATIONS_COLUMNS)
  ELSE LET ids == Unique(samples_df)
           classification(sample_id) ==
             LET sample_results == RowsOfSample(results_df, sample_id)
                 max_tk == ColumnMax(sample_results)
                 limiting ==
                   IF max_tk # None
                   THEN {sample_results[k].parameter :
                           k \in {j \in DOMAIN sample_results :
                                    sample_results[j].tilstandsklasse = max_tk}}
                   ELSE {}
             IN  [sample_id |-> sample_id,
                  tilstandsklasse |-> max_tk,
                  limiting_parameters |-> limiting,
                  classification_basis |-> classification_basis]
           classifications == [k \in DOMAIN ids |-> classification(ids[k])]
       IN  GetColumns(DataFrame(classifications, CLASSIFICATIONS_COLUMNS),
                      CLASSIFICATIONS_COLUMNS)

\* the decision rule of both create_decisions_df (dataframes.py 99-102,
\* schema.py 281-284)
decision_of(max_tk) ==
  IF max_tk # None
  THEN IF max_tk[1] = 1 THEN Some("gjenbruk") ELSE Some("deponi")
  ELSE None

\* lib/dataframes.py: create_decisions_df
create_decisions_df(samples_df, results_df) ==
  IF Len(results_df.rows) = 0
     \/ ~ \E j \in DOMAIN results_df.columns : results_df.columns[j] = "tilstandsklasse"
  THEN EmptyDataFrame(DECISIONS_COLUMNS)
  ELSE LET ids == Unique(samples_df)
           row(sample_id) ==
             [sample_id |-> sample_id,
              decision |-> decision_of(ColumnMax(RowsOfSample(results_df, sample_id))),
              decision_remarks |-> "",
              destination |-> "",
              notes |-> ""]
           decisions == [k \in DOMAIN ids |-> row(ids[k])]
       IN  GetColumns(DataFrame(decisions, DECISIONS_COLUMNS), DECISIONS_COLUMNS)

\* lib/schema.py: create_decisions_df; its rows have no 'decision_remarks'
schema_create_decisions_df(samples_df, results_df) ==
  IF Len(results_df.rows) = 0
     \/ ~ \E j \in DOMAIN results_df.columns : results_df.columns[j] = "tilstandsklasse"
  THEN EmptyDataFrame(DECISIONS_COLUMNS)
  ELSE LET ids == Unique(samples_df)
           row(sample_id) ==
             [sample_id |-> sample_id,
              decision |-> decision_of(ColumnMax(RowsOfSample(results_df, sample_id))),
              destination |-> "",
              notes |-> ""]
           decisions == [k \in DOMAIN ids |-> row(ids[k])]
       IN  GetColumns(DataFrame(decisions,
                                <<"sample_id", "decision", "destination", "notes">>),
                      DECISIONS_COLUMNS)

\* a class table whose one entry has a last boundary below the one before
chemistry_TILSTANDSKLASSER_decreasing ==
  "As" :> [I |-> Dec(8, 0), II |-> Dec(8, 0), III |-> Dec(20, 0), IV |-> Dec(50, 0), V |-> Dec(10, 0)]

chemistry_TILSTANDSKLASSER ==
  "As" :> [I |-> Dec(8, 0), II |-> Dec(8, 0), III |-> Dec(20, 0), IV |-> Dec(50, 0), V |-> Dec(1000, 0)]
  @@ "Pb" :> [I |-> Dec(60, 0), II |-> Dec(60, 0), III |-> Dec(100, 0), IV |-> Dec(300, 0), V |-> Dec(1000, 0)]
  @@ "Cd" :> [I |-> Dec(1, 50000), II |-> Dec(1, 50000), III |-> Dec(3, 0), IV |-> Dec(15, 0), V |-> Dec(30, 0)]
  @@ "Cu" :> [I |-> Dec(100, 0), II |-> Dec(100, 0), III |-> Dec(200, 0), IV |-> Dec(1000, 0), V |-> Dec(1000, 0)]
  @@ "Cr" :> [I |-> Dec(50, 0), II |-> Dec(50, 0), III |-> Dec(100, 0), IV |-> Dec(500, 0), V |-> Dec(1000, 0)]
  @@ "Cr_VI" :> [I |-> Dec(2, 0), II |-> Dec(2, 0), III |-> Dec(5, 0), IV |-> Dec(20, 0), V |-> Dec(1000, 0)]
  @@ "Hg" :> [I |-> Dec(1, 0), II |-> Dec(1, 0), III |-> Dec(2, 0), IV |-> Dec(10, 0), V |-> Dec(10, 0)]
  @@ "Ni" :> [I |-> Dec(60, 0), II |-> Dec(60, 0), III |-> Dec(100, 0), IV |-> Dec(500, 0), V |-> Dec(1000, 0)]
  @@ "Zn" :> [I |-> Dec(200, 0), II |-> Dec(200, 0), III |-> Dec(500, 0), IV |-> Dec(1000, 0), V |-> Dec(5000, 0)]
  @@ "V" :> [I |-> Dec(100, 0), II |-> Dec(100, 0), III |-> Dec(200, 0), IV |-> Dec(700, 0), V |-> Dec(700, 0)]
  @@ "Co" :> [I |-> Dec(20, 0), II |-> Dec(20, 0), III |-> Dec(50, 0), IV |-> Dec(300, 0), V |-> Dec(1000, 0)]
  @@ "PAH16" :> [I |-> Dec(2, 0), II |-> Dec(2, 0), III |-> Dec(8, 0), IV |-> Dec(50, 0), V |-> Dec(1000, 0)]
  @@ "BaP" :> [I |-> Dec(0, 10000), II |-> Dec(0, 10000), III |-> Dec(0, 50000), IV |-> Dec(5, 0), V |-> Dec(100, 0)]
  @@ "Naphthalene" :> [I |-> Dec(0, 80000), II |-> Dec(0, 80000), III |-> Dec(4, 0), IV |-> Dec(40, 0), V |-> Dec(1000, 0)]
  @@ "PCB7" :> [I |-> Dec(0, 1000), II |-> Dec(0, 1000), III |-> Dec(0, 50000), IV |-> Dec(1, 0), V |-> Dec(5, 0)]
  @@ "THC" :> [I |-> Dec(50, 0), II |-> Dec(50, 0), III |-> Dec(300, 0), IV |-> Dec(2000, 0), V |-> Dec(5000, 0)]
  @@ "THC_C12-C35" :> [I |-> Dec(50, 0), II |-> Dec(50, 0), III |-> Dec(300, 0), IV |-> Dec(2000, 0), V |-> Dec(5000, 0)]
  @@ "THC_C16-C35" :> [I |-> Dec(50, 0), II |-> Dec(50, 0), III |-> Dec(300, 0), IV |-> Dec(2000, 0), V |-> Dec(5000, 0)]
  @@ "Benzene" :> [I |-> Dec(0, 1000), II |-> Dec(0, 1000), III |-> Dec(0, 5000), IV |-> Dec(1, 0), V |-> Dec(5, 0)]
  @@ "CN" :> [I |-> Dec(1, 0), II |-> Dec(1, 0), III |-> Dec(5, 0), IV |-> Dec(100, 0), V |-> Dec(500, 0)]

\* lib/chemistry.py: classify_contamination(parameter, value)
classify_contamination(p, v) ==
  IF v = None \/ p \notin DOMAIN chemistry_TILSTANDSKLASSER THEN "Unknown"
  ELSE LET limits == chemistry_TILSTANDSKLASSER[p]
       IN  IF LE(v, limits.I) THEN "I"
           ELSE IF LE(v, limits.II) THEN "II"
           ELSE IF LE(v, limits.III) THEN "III"
           ELSE IF LE(v, limits.IV) THEN "IV"
           ELSE "V"

\* lib/chemistry.py: class_order of get_limiting_parameter
class_order ==
  "I" :> 1 @@ "II" :> 2 @@ "III" :> 3 @@ "IV" :> 4 @@ "V" :> 5 @@ "Unknown" :> 0

(* lib/chemistry.py: get_limiting_parameter(results), over the items of the *)
(* dict in iteration order; returns <<worst_param, worst_value, worst_class>> *)
RECURSIVE get_limiting_parameter(_)
get_limiting_parameter(items) ==
  IF Len(items) = 0 THEN <<None, None, "I">>
  ELSE LET before == get_limiting_parameter(SubSeq(items, 1, Len(items) - 1))
           param == items[Len(items)][1]
           val == items[Len(items)][2]
           classification == classify_contamination(param, val)
       IN  IF val = None THEN before
           ELSE IF class_order[classification] > class_order[before[3]]
           THEN <<Some(param), val, classification>>
           ELSE before

\* param_values[param] = value on the dict held as its items in insertion order
RECURSIVE DictSet(_, _, _)
DictSet(items, k, v) ==
  IF Len(items) = 0 THEN <<<<k, v>>>>
  ELSE IF items[1][1] = k THEN <<<<k, v>>>> \o Tail(items)
  ELSE <<items[1]>> \o DictSet(Tail(items), k, v)

\* lib/chemistry.py: classify_sample_results, lines 891-896
RECURSIVE param_values_of(_)
param_values_of(rows) ==
  IF Len(rows) = 0 THEN << >>
  ELSE LET before == param_values_of(SubSeq(rows, 1, Len(rows) - 1))
           r == rows[Len(rows)]
       IN  IF r.parameter # "" /\ r.value # None
           THEN DictSet(before, r.parameter, r.value)
           ELSE before

\* lib/chemistry.py: classify_sample_results(sample_id, results)
classify_sample_results(sample_id, results_df) ==
  LET limiting == get_limiting_parameter(param_values_of(results_df.rows))
  IN  [sample_id |-> sample_id,
       tilstandsklasse |-> limiting[3],
       limiting_parameter |-> limiting[1],
       limiting_value |-> limiting[2],
       classification_basis |-> "TA-2553/2009"]

----------------------------------------------------------------------------
(* The tables handed to the table routines.  The results table has one row  *)
(* per item of the sample, with the class of the result in the column       *)
(* 'tilstandsklasse' when the caller has attached it.                       *)
SampleId == "p18-1"

OtherSampleId == "p18-2"

SamplesDfs ==
  {<< >>, <<SampleId>>, <<SampleId, OtherSampleId>>, <<SampleId, SampleId>>}

results_df_of(r, ord, with_tk) ==
  IF with_tk
  THEN DataFrame([k \in DOMAIN ord |->
                    [sample_id |-> SampleId, parameter |-> ord[k], value |-> r[ord[k]],
                     tilstandsklasse |-> get_tilstandsklasse(ord[k], r[ord[k]])]],
                 <<"sample_id", "parameter", "value", "tilstandsklasse">>)
  ELSE DataFrame([k \in DOMAIN ord |->
                    [sample_id |-> SampleId, parameter |-> ord[k], value |-> r[ord[k]]]],
                 <<"sample_id", "parameter", "value">>)

----------------------------------------------------------------------------
(* Labels and codes of lib/chemistry.py are strings, held as sequences of   *)
(* characters; a character is a one-character string, and the letters o     *)
(* and O with a stroke are written "o/" and "O/", a with a ring "ao" and    *)
(* "Ao".  The empty string and None are both the empty sequence: the        *)
(* normalizer returns '' for both.                                          *)

\* lib/chemistry.py: EUROFINS_ALI_COLUMN_MAP
EUROFINS_ALI_COLUMN_MAP ==
  <<"T", "o/", "r", "r", "s", "t", "o", "f", "f">> :> <<"D", "r", "y", "M", "a", "t", "t", "e", "r">>
  @@ <<"T", "o/", "r", "r", "s", "t", "o", "f", "f", " ", "(", "i", "t", "e", ")">> :> <<"D", "r", "y", "M", "a", "t", "t", "e", "r">>
  @@ <<"i", "t", "e", " ", "T", "o/", "r", "r", "s", "t", "o", "f", "f">> :> <<"D", "r", "y", "M", "a", "t", "t", "e", "r">>
  @@ <<"p", "H">> :> <<"p", "H">>
  @@ <<"A", "r", "s", "e", "n", " ", "(", "A", "s", ")">> :> <<"A", "s">>
  @@ <<"B", "l", "y", " ", "(", "P", "b", ")">> :> <<"P", "b">>
  @@ <<"K", "a", "d", "m", "i", "u", "m", " ", "(", "C", "d", ")">> :> <<"C", "d">>
  @@ <<"K", "o", "b", "b", "e", "r", " ", "(", "C", "u", ")">> :> <<"C", "u">>
  @@ <<"K", "r", "o", "m", " ", "(", "C", "r", ")">> :> <<"C", "r">>
  @@ <<"K", "r", "o", "m", " ", "t", "o", "t", "a", "l", " ", "(", "C", "r", ")">> :> <<"C", "r">>
  @@ <<"K", "v", "i", "k", "k", "s", "o/", "l", "v", " ", "(", "H", "g", ")">> :> <<"H", "g">>
  @@ <<"N", "i", "k", "k", "e", "l", " ", "(", "N", "i", ")">> :> <<"N", "i">>
  @@ <<"S", "i", "n", "k", " ", "(", "Z", "n", ")">> :> <<"Z", "n">>
  @@ <<"K", "r", "o", "m", " ", "(", "V", "I", ")">> :> <<"C", "r", "_", "V", "I">>
  @@ <<"K", "r", "o", "m", " ", "V", "I">> :> <<"C", "r", "_", "V", "I">>
  @@ <<"J", "e", "r", "n", " ", "(", "F", "e", ")">> :> <<"F", "e">>
  @@ <<"M", "a", "n", "g", "a", "n", " ", "(", "M", "n", ")">> :> <<"M", "n">>
  @@ <<"B", "a", "r", "i", "u", "m", " ", "(", "B", "a", ")">> :> <<"B", "a">>
  @@ <<"V", "a", "n", "a", "d", "i", "u", "m", " ", "(", "V", ")">> :> <<"V">>
  @@ <<"K", "o", "b", "o", "l", "t", " ", "(", "C", "o", ")">> :> <<"C", "o">>
  @@ <<"M", "o", "l", "y", "b", "d", "e", "n", " ", "(", "M", "o", ")">> :> <<"M", "o">>
  @@ <<"A", "n", "t", "i", "m", "o", "n", " ", "(", "S", "b", ")">> :> <<"S", "b">>
  @@ <<"S", "e", "l", "e", "n", " ", "(", "S", "e", ")">> :> <<"S", "e">>
  @@ <<"T", "i", "n", "n", " ", "(", "S", "n", ")">> :> <<"S", "n">>
  @@ <<"T", "a", "l", "l", "i", "u", "m", " ", "(", "T", "l", ")">> :> <<"T", "l">>
  @@ <<"A", "l", "u", "m", "i", "n", "i", "u", "m", " ", "(", "A", "l", ")">> :> <<"A", "l">>
  @@ <<"B", "e", "r", "y", "l", "l", "i", "u", "m", " ", "(", "B", "e", ")">> :> <<"B", "e">>
  @@ <<"L", "i", "t", "i", "u", "m", " ", "(", "L", "i", ")">> :> <<"L", "i">>
  @@ <<"S", "o/", "l", "v", " ", "(", "A", "g", ")">> :> <<"A", "g">>
  @@ <<"W", "o", "l", "f", "r", "a", "m", " ", "(", "W", ")">> :> <<"W">>
  @@ <<"B", "e", "n", "z", "e", "n">> :> <<"B", "e", "n", "z", "e", "n", "e">>
  @@ <<"T", "o", "l", "u", "e", "n">> :> <<"T", "o", "l", "u", "e", "n", "e">>
  @@ <<"E", "t", "y", "l", "b", "e", "n", "z", "e", "n">> :> <<"E", "t", "h", "y", "l", "b", "e", "n", "z", "e", "n", "e">>
  @@ <<"m", "/", "p", "/", "o", "-", "X", "y", "l", "e", "n">> :> <<"X", "y", "l", "e", "n", "e">>
  @@ <<"m", ",", "p", "-", "X", "y", "l", "e", "n">> :> <<"X", "y", "l", "e", "n", "e", "_", "m", "p">>
  @@ <<"o", "-", "X", "y", "l", "e", "n">> :> <<"X", "y", "l", "e", "n", "e", "_", "o">>
  @@ <<"X", "y", "l", "e", "n", "e", "r">> :> <<"X", "y", "l", "e", "n", "e">>
  @@ <<"S", "u", "m", " ", "B", "T", "E", "X">> :> <<"B", "T", "E", "X">>
  @@ <<"A", "l", "i", "f", "a", "t", "e", "r", " ", "C", "5", "-", "C", "6">> :> <<"A", "l", "i", "f", "a", "t", "e", "r", "_", "C", "5", "-", "C", "6">>
  @@ <<"A", "l", "i", "f", "a", "t", "e", "r", " ", ">", "C", "6", "-", "C", "8">> :> <<"A", "l", "i", "f", "a", "t", "e", "r", "_", "C", "6", "-", "C", "8">>
  @@ <<"A", "l", "i", "f", "a", "t", "e", "r", " ", ">", "C", "8", "-", "C", "1", "0">> :> <<"A", "l", "i", "f", "a", "t", "e", "r", "_", "C", "8", "-", "C", "1", "0">>
  @@ <<"A", "l", "i", "f", "a", "t", "e", "r", " ", ">", "C", "1", "0", "-", "C", "1", "2">> :> <<"A", "l", "i", "f", "a", "t", "e", "r", "_", "C", "1", "0", "-", "C", "1", "2">>
  @@ <<"A", "l", "i", "f", "a", "t", "e", "r", " ", ">", "C", "1", "2", "-", "C", "1", "6">> :> <<"A", "l", "i", "f", "a", "t", "e", "r", "_", "C", "1", "2", "-", "C", "1", "6">>
  @@ <<"A", "l", "i", "f", "a", "t", "e", "r", " ", ">", "C", "1", "6", "-", "C", "3", "5">> :> <<"A", "l", "i", "f", "a", "t", "e", "r", "_", "C", "1", "6", "-", "C", "3", "5">>
  @@ <<"A", "l", "i", "f", "a", "t", "e", "r", " ", "C", "5", "-", "C", "3", "5">> :> <<"A", "l", "i", "f", "a", "t", "e", "r", "_", "C", "5", "-", "C", "3", "5">>
  @@ <<"A", "l", "i", "f", "a", "t", "e", "r", " ", ">", "C", "1", "2", "-", "C", "3", "5">> :> <<"A", "l", "i", "f", "a", "t", "e", "r", "_", "C", "1", "2", "-", "C", "3", "5">>
  @@ <<"A", "l", "i", "f", "a", "t", "e", "r", " ", ">", "C", "3", "5", "-", "C", "4", "0">> :> <<"A", "l", "i", "f", "a", "t", "e", "r", "_", "C", "3", "5", "-", "C", "4", "0">>
  @@ <<"A", "l", "i", "f", "a", "t", "e", "r", " ", "C", "1", "0", "-", "C", "4", "0">> :> <<"A", "l", "i", "f", "a", "t", "e", "r", "_", "C", "1", "0", "-", "C", "4", "0">>
  @@ <<"O", "l", "j", "e", " ", ">", "C", "1", "0", "-", "C", "1", "2">> :> <<"A", "l", "i", "f", "a", "t", "e", "r", "_", "C", "1", "0", "-", "C", "1", "2">>
  @@ <<"O", "l", "j", "e", " ", ">", "C", "1", "2", "-", "C", "1", "6">> :> <<"A", "l", "i", "f", "a", "t", "e", "r", "_", "C", "1", "2", "-", "C", "1", "6">>
  @@ <<"O", "l", "j", "e", " ", ">", "C", "1", "6", "-", "C", "3", "5">> :> <<"A", "l", "i", "f", "a", "t", "e", "r", "_", "C", "1", "6", "-", "C", "3", "5">>
  @@ <<"O", "l", "j", "e", " ", "s", "u", "m", " ", ">", "C", "1", "2", "-", "C", "3", "5">> :> <<"A", "l", "i", "f", "a", "t", "e", "r", "_", "C", "1", "2", "-", "C", "3", "5">>
  @@ <<"O", "l", "j", "e", " ", "(", "s", "u", "m", " ", ">", "C", "1", "0", "-", "C", "4", "0", ")">> :> <<"A", "l", "i", "f", "a", "t", "e", "r", "_", "C", "1", "0", "-", "C", "4", "0">>
  @@ <<"S", "u", "m", " ", "T", "H", "C", " ", "(", ">", "C", "1", "0", "-", "C", "4", "0", ")">> :> <<"A", "l", "i", "f", "a", "t", "e", "r", "_", "C", "1", "0", "-", "C", "4", "0">>
  @@ <<"A", "r", "o", "m", "a", "t", "e", "r", " ", ">", "C", "8", "-", "C", "1", "0">> :> <<"A", "r", "o", "m", "a", "t", "i", "c", "s", "_", "C", "8", "-", "C", "1", "0">>
  @@ <<"A", "r", "o", "m", "a", "t", "e", "r", " ", ">", "C", "1", "0", "-", "C", "1", "6">> :> <<"A", "r", "o", "m", "a", "t", "i", "c", "s", "_", "C", "1", "0", "-", "C", "1", "6">>
  @@ <<"A", "r", "o", "m", "a", "t", "e", "r", " ", ">", "C", "1", "6", "-", "C", "3", "5">> :> <<"A", "r", "o", "m", "a", "t", "i", "c", "s", "_", "C", "1", "6", "-", "C", "3", "5">>
  @@ <<"N", "a", "f", "t", "a", "l", "e", "n">> :> <<"N", "a", "p", "h", "t", "h", "a", "l", "e", "n", "e">>
  @@ <<"A", "c", "e", "n", "a", "f", "t", "y", "l", "e", "n">> :> <<"A", "c", "e", "n", "a", "p", "h", "t", "h", "y", "l", "e", "n", "e">>
  @@ <<"A", "c", "e", "n", "a", "f", "t", "e", "n">> :> <<"A", "c", "e", "n", "a", "p", "h", "t", "h", "e", "n", "e">>
  @@ <<"F", "l", "u", "o", "r", "e", "n">> :> <<"F", "l", "u", "o", "r", "e", "n", "e">>
  @@ <<"F", "e", "n", "a", "n", "t", "r", "e", "n">> :> <<"P", "h", "e", "n", "a", "n", "t", "h", "r", "e", "n", "e">>
  @@ <<"A", "n", "t", "r", "a", "c", "e", "n">> :> <<"A", "n", "t", "h", "r", "a", "c", "e", "n", "e">>
  @@ <<"F", "l", "u", "o", "r", "a", "n", "t", "e", "n">> :> <<"F", "l", "u", "o", "r", "a", "n", "t", "h", "e", "n", "e">>
  @@ <<"P", "y", "r", "e", "n">> :> <<"P", "y", "r", "e", "n", "e">>
  @@ <<"B", "e", "n", "z", "o", "[", "a", "]", "a", "n", "t", "r", "a", "c", "e", "n">> :> <<"B", "a", "A">>
  @@ <<"B", "e", "n", "z", "o", "(", "a", ")", "a", "n", "t", "r", "a", "c", "e", "n">> :> <<"B", "a", "A">>
  @@ <<"K", "r", "y", "s", "e", "n">> :> <<"C", "h", "r", "y", "s", "e", "n", "e">>
  @@ <<"K", "r", "y", "s", "e", "n", "/", "T", "r", "i", "f", "e", "n", "y", "l", "e", "n">> :> <<"C", "h", "r", "y", "s", "e", "n", "e">>
  @@ <<"B", "e", "n", "z", "o", "[", "b", "]", "f", "l", "u", "o", "r", "a", "n", "t", "e", "n">> :> <<"B", "b", "F">>
  @@ <<"B", "e", "n", "z", "o", "(", "b", ")", "f", "l", "u", "o", "r", "a", "n", "t", "e", "n">> :> <<"B", "b", "F">>
  @@ <<"B", "e", "n", "z", "o", "[", "k", "]", "f", "l", "u", "o", "r", "a", "n", "t", "e", "n">> :> <<"B", "k", "F">>
  @@ <<"B", "e", "n", "z", "o", "(", "k", ")", "f", "l", "u", "o", "r", "a", "n", "t", "e", "n">> :> <<"B", "k", "F">>
  @@ <<"B", "e", "n", "z", "o", "(", "b", ",", "k", ")", "f", "l", "u", "o", "r", "a", "n", "t", "e", "n">> :> <<"B", "b", "k", "F">>
  @@ <<"B", "e", "n", "z", "o", "[", "a", "]", "p", "y", "r", "e", "n">> :> <<"B", "a", "P">>
  @@ <<"B", "e", "n", "z", "o", "(", "a", ")", "p", "y", "r", "e", "n">> :> <<"B", "a", "P">>
  @@ <<"I", "n", "d", "e", "n", "o", "[", "1", ",", "2", ",", "3", "-", "c", "d", "]", "p", "y", "r", "e", "n">> :> <<"I", "c", "d", "P">>
  @@ <<"I", "n", "d", "e", "n", "o", "(", "1", ",", "2", ",", "3", "-", "c", "d", ")", "p", "y", "r", "e", "n">> :> <<"I", "c", "d", "P">>
  @@ <<"D", "i", "b", "e", "n", "z", "o", "[", "a", ",", "h", "]", "a", "n", "t", "r", "a", "c", "e", "n">> :> <<"D", "a", "h", "A">>
  @@ <<"D", "i", "b", "e", "n", "z", "o", "(", "a", ",", "h", ")", "a", "n", "t", "r", "a", "c", "e", "n">> :> <<"D", "a", "h", "A">>
  @@ <<"B", "e", "n", "z", "o", "[", "g", "h", "i", "]", "p", "e", "r", "y", "l", "e", "n">> :> <<"B", "g", "h", "i", "P">>
  @@ <<"B", "e", "n", "z", "o", "(", "g", "h", "i", ")", "p", "e", "r", "y", "l", "e", "n">> :> <<"B", "g", "h", "i", "P">>
  @@ <<"S", "u", "m", " ", "P", "A", "H", "(", "1", "6", ")", " ", "E", "P", "A">> :> <<"P", "A", "H", "1", "6">>
  @@ <<"S", "u", "m", " ", "P", "A", "H", "-", "1", "6">> :> <<"P", "A", "H", "1", "6">>
  @@ <<"S", "u", "m", " ", "P", "A", "H", " ", "1", "6">> :> <<"P", "A", "H", "1", "6">>
  @@ <<"P", "A", "H", " ", "1", "6", " ", "E", "P", "A">> :> <<"P", "A", "H", "1", "6">>
  @@ <<"P", "C", "B", " ", "2", "8">> :> <<"P", "C", "B", "2", "8">>
  @@ <<"P", "C", "B", " ", "5", "2">> :> <<"P", "C", "B", "5", "2">>
  @@ <<"P", "C", "B", " ", "1", "0", "1">> :> <<"P", "C", "B", "1", "0", "1">>
  @@ <<"P", "C", "B", " ", "1", "1", "8">> :> <<"P", "C", "B", "1", "1", "8">>
  @@ <<"P", "C", "B", " ", "1", "3", "8">> :> <<"P", "C", "B", "1", "3", "8">>
  @@ <<"P", "C", "B", " ", "1", "5", "3">> :> <<"P", "C", "B", "1", "5", "3">>
  @@ <<"P", "C", "B", " ", "1", "8", "0">> :> <<"P", "C", "B", "1", "8", "0">>
  @@ <<"S", "u", "m", " ", "7", " ", "P", "C", "B">> :> <<"P", "C", "B", "7">>
  @@ <<"S", "u", "m", " ", "P", "C", "B", "-", "7">> :> <<"P", "C", "B", "7">>
  @@ <<"S", "u", "m", " ", "P", "C", "B", " ", "7">> :> <<"P", "C", "B", "7">>
  @@ <<"C", "y", "a", "n", "i", "d">> :> <<"C", "N">>
  @@ <<"C", "y", "a", "n", "i", "d", " ", "t", "o", "t", "a", "l">> :> <<"C", "N">>
  @@ <<"C", "y", "a", "n", "i", "d", " ", "f", "r", "i">> :> <<"C", "N", "_", "f", "r", "e", "e">>
  @@ <<"T", "O", "C">> :> <<"T", "O", "C">>
  @@ <<"G", "l", "o/", "d", "e", "t", "a", "p">> :> <<"L", "O", "I">>

\* lib/chemistry.py: ALS_EXCEL_COLUMN_MAP
ALS_EXCEL_COLUMN_MAP ==
  <<"A", "s", " ", "(", "A", "r", "s", "e", "n", ")">> :> <<"A", "s">>
  @@ <<"C", "d", " ", "(", "K", "a", "d", "m", "i", "u", "m", ")">> :> <<"C", "d">>
  @@ <<"C", "r", " ", "(", "K", "r", "o", "m", ")">> :> <<"C", "r">>
  @@ <<"C", "u", " ", "(", "K", "o", "p", "p", "e", "r", ")">> :> <<"C", "u">>
  @@ <<"H", "g", " ", "(", "K", "v", "i", "k", "k", "s", "o/", "l", "v", ")">> :> <<"H", "g">>
  @@ <<"N", "i", " ", "(", "N", "i", "k", "k", "e", "l", ")">> :> <<"N", "i">>
  @@ <<"P", "b", " ", "(", "B", "l", "y", ")">> :> <<"P", "b">>
  @@ <<"Z", "n", " ", "(", "S", "i", "n", "k", ")">> :> <<"Z", "n">>
  @@ <<"B", "a", " ", "(", "B", "a", "r", "i", "u", "m", ")">> :> <<"B", "a">>
  @@ <<"M", "o", " ", "(", "M", "o", "l", "y", "b", "d", "e", "n", ")">> :> <<"M", "o">>
  @@ <<"S", "b", " ", "(", "A", "n", "t", "i", "m", "o", "n", ")">> :> <<"S", "b">>
  @@ <<"S", "e", " ", "(", "S", "e", "l", "e", "n", ")">> :> <<"S", "e">>
  @@ <<"V", " ", "(", "V", "a", "n", "a", "d", "i", "u", "m", ")">> :> <<"V">>
  @@ <<"C", "o", " ", "(", "K", "o", "b", "o", "l", "t", ")">> :> <<"C", "o">>
  @@ <<"F", "e", " ", "(", "J", "e", "r", "n", ")">> :> <<"F", "e">>
  @@ <<"M", "n", " ", "(", "M", "a", "n", "g", "a", "n", ")">> :> <<"M", "n">>
  @@ <<"S", "u", "m", " ", "P", "C", "B", "-", "7">> :> <<"P", "C", "B", "7">>
  @@ <<"P", "C", "B", " ", "2", "8">> :> <<"P", "C", "B", "2", "8">>
  @@ <<"P", "C", "B", " ", "5", "2">> :> <<"P", "C", "B", "5", "2">>
  @@ <<"P", "C", "B", " ", "1", "0", "1">> :> <<"P", "C", "B", "1", "0", "1">>
  @@ <<"P", "C", "B", " ", "1", "1", "8">> :> <<"P", "C", "B", "1", "1", "8">>
  @@ <<"P", "C", "B", " ", "1", "3", "8">> :> <<"P", "C", "B", "1", "3", "8">>
  @@ <<"P", "C", "B", " ", "1", "5", "3">> :> <<"P", "C", "B", "1", "5", "3">>
  @@ <<"P", "C", "B", " ", "1", "8", "0">> :> <<"P", "C", "B", "1", "8", "0">>
  @@ <<"B", "e", "n", "s", "o", "(", "a", ")", "p", "y", "r", "e", "n", "^">> :> <<"B", "a", "P">>
  @@ <<"B", "e", "n", "s", "o", "(", "a", ")", "p", "y", "r", "e", "n">> :> <<"B", "a", "P">>
  @@ <<"S", "u", "m", " ", "P", "A", "H", "-", "1", "6">> :> <<"P", "A", "H", "1", "6">>
  @@ <<"S", "u", "m", " ", "o", "f", " ", "1", "6", " ", "P", "A", "H", " ", "(", "M", "1", ")">> :> <<"P", "A", "H", "1", "6">>
  @@ <<"N", "a", "f", "t", "a", "l", "e", "n">> :> <<"N", "a", "p", "h", "t", "h", "a", "l", "e", "n", "e">>
  @@ <<"A", "c", "e", "n", "a", "f", "t", "y", "l", "e", "n">> :> <<"A", "c", "e", "n", "a", "p", "h", "t", "h", "y", "l", "e", "n", "e">>
  @@ <<"A", "c", "e", "n", "a", "f", "t", "e", "n">> :> <<"A", "c", "e", "n", "a", "p", "h", "t", "h", "e", "n", "e">>
  @@ <<"F", "l", "u", "o", "r", "e", "n">> :> <<"F", "l", "u", "o", "r", "e", "n", "e">>
  @@ <<"F", "e", "n", "a", "n", "t", "r", "e", "n">> :> <<"P", "h", "e", "n", "a", "n", "t", "h", "r", "e", "n", "e">>
  @@ <<"A", "n", "t", "r", "a", "c", "e", "n">> :> <<"A", "n", "t", "h", "r", "a", "c", "e", "n", "e">>
  @@ <<"F", "l", "u", "o", "r", "a", "n", "t", "e", "n">> :> <<"F", "l", "u", "o", "r", "a", "n", "t", "h", "e", "n", "e">>
  @@ <<"P", "y", "r", "e", "n">> :> <<"P", "y", "r", "e", "n", "e">>
  @@ <<"B", "e", "n", "s", "o", "(", "a", ")", "a", "n", "t", "r", "a", "c", "e", "n", "^">> :> <<"B", "a", "A">>
  @@ <<"K", "r", "y", "s", "e", "n", "^">> :> <<"C", "h", "r", "y", "s", "e", "n", "e">>
  @@ <<"B", "e", "n", "s", "o", "(", "b", "+", "j", ")", "f", "l", "u", "o", "r", "a", "n", "t", "e", "n", "^">> :> <<"B", "b", "j", "F">>
  @@ <<"S", "u", "m", " ", "a", "v", " ", "b", "e", "n", "s", "o", "(", "b", "+", "j", ")", "f", "l", "u", "o", "r", "a", "n", "t", "e", "n">> :> <<"B", "b", "j", "F", "_", "s", "u", "m">>
  @@ <<"B", "e", "n", "s", "o", "(", "k", ")", "f", "l", "u", "o", "r", "a", "n", "t", "e", "n", "^">> :> <<"B", "k", "F">>
  @@ <<"I", "n", "d", "e", "n", "o", "(", "1", "2", "3", "c", "d", ")", "p", "y", "r", "e", "n", "^">> :> <<"I", "c", "d", "P">>
  @@ <<"D", "i", "b", "e", "n", "s", "o", "(", "a", "h", ")", "a", "n", "t", "r", "a", "c", "e", "n", "^">> :> <<"D", "a", "h", "A">>
  @@ <<"B", "e", "n", "s", "o", "(", "g", "h", "i", ")", "p", "e", "r", "y", "l", "e", "n">> :> <<"B", "g", "h", "i", "P">>
  @@ <<"B", "e", "n", "z", "e", "n">> :> <<"B", "e", "n", "z", "e", "n", "e">>
  @@ <<"T", "o", "l", "u", "e", "n">> :> <<"T", "o", "l", "u", "e", "n", "e">>
  @@ <<"E", "t", "y", "l", "b", "e", "n", "s", "e", "n">> :> <<"E", "t", "h", "y", "l", "b", "e", "n", "z", "e", "n", "e">>
  @@ <<"X", "y", "l", "e", "n", "e", "r">> :> <<"X", "y", "l", "e", "n", "e", "s">>
  @@ <<"m", "/", "p", "-", "X", "y", "l", "e", "n", "e", "r">> :> <<"X", "y", "l", "e", "n", "e", "s", "_", "m", "p">>
  @@ <<"o", "-", "X", "y", "l", "e", "n">> :> <<"X", "y", "l", "e", "n", "e", "_", "o">>
  @@ <<"S", "u", "m", " ", "x", "y", "l", "e", "n", "e", "r", " ", "(", "M", "1", ")">> :> <<"X", "y", "l", "e", "n", "e", "s", "_", "s", "u", "m">>
  @@ <<"S", "u", "m", " ", "B", "T", "E", "X", " ", "(", "M", "1", ")">> :> <<"B", "T", "E", "X", "_", "s", "u", "m">>
  @@ <<"A", "l", "i", "f", "a", "t", "e", "r", " ", ">", "C", "5", "-", "C", "6">> :> <<"A", "l", "i", "f", "a", "t", "e", "r", "_", "C", "5", "-", "C", "6">>
  @@ <<"A", "l", "i", "f", "a", "t", "e", "r", " ", ">", "C", "6", "-", "C", "8">> :> <<"A", "l", "i", "f", "a", "t", "e", "r", "_", "C", "6", "-", "C", "8">>
  @@ <<"A", "l", "i", "f", "a", "t", "e", "r", " ", ">", "C", "8", "-", "C", "1", "0">> :> <<"A", "l", "i", "f", "a", "t", "e", "r", "_", "C", "8", "-", "C", "1", "0">>
  @@ <<"A", "l", "i", "f", "a", "t", "e", "r", " ", ">", "C", "1", "0", "-", "C", "1", "2">> :> <<"A", "l", "i", "f", "a", "t", "e", "r", "_", "C", "1", "0", "-", "C", "1", "2">>
  @@ <<"A", "l", "i", "f", "a", "t", "e", "r", " ", "C", "1", "0", "-", "C", "1", "2">> :> <<"A", "l", "i", "f", "a", "t", "e", "r", "_", "C", "1", "0", "-", "C", "1", "2">>
  @@ <<"A", "l", "i", "f", "a", "t", "e", "r", " ", ">", "C", "1", "2", "-", "C", "1", "6">> :> <<"A", "l", "i", "f", "a", "t", "e", "r", "_", "C", "1", "2", "-", "C", "1", "6">>
  @@ <<"A", "l", "i", "f", "a", "t", "e", "r", " ", ">", "C", "1", "6", "-", "C", "3", "5">> :> <<"A", "l", "i", "f", "a", "t", "e", "r", "_", "C", "1", "6", "-", "C", "3", "5">>
  @@ <<"S", "u", "m", " ", "a", "l", "i", "f", "a", "t", "e", "r", " ", ">", "C", "5", "-", "C", "3", "5", " ", "(", "M", "1", ")">> :> <<"A", "l", "i", "f", "a", "t", "e", "r", "_", "C", "5", "-", "C", "3", "5", "_", "s", "u", "m">>
  @@ <<"S", "u", "m", " ", "a", "l", "i", "f", "a", "t", "e", "r", " ", ">", "C", "1", "2", "-", "C", "3", "5", " ", "(", "M", "1", ")">> :> <<"A", "l", "i", "f", "a", "t", "e", "r", "_", "C", "1", "2", "-", "C", "3", "5", "_", "s", "u", "m">>
  @@ <<"F", "r", "a", "k", "s", "j", "o", "n", " ", ">", "C", "5", "-", "C", "6">> :> <<"F", "r", "a", "k", "s", "j", "o", "n", "_", "C", "5", "-", "C", "6">>
  @@ <<"F", "r", "a", "k", "s", "j", "o", "n", " ", ">", "C", "6", "-", "C", "8">> :> <<"F", "r", "a", "k", "s", "j", "o", "n", "_", "C", "6", "-", "C", "8">>
  @@ <<"F", "r", "a", "k", "s", "j", "o", "n", " ", ">", "C", "8", "-", "C", "1", "0">> :> <<"F", "r", "a", "k", "s", "j", "o", "n", "_", "C", "8", "-", "C", "1", "0">>
  @@ <<"F", "r", "a", "k", "s", "j", "o", "n", " ", ">", "C", "1", "0", "-", "C", "1", "2">> :> <<"F", "r", "a", "k", "s", "j", "o", "n", "_", "C", "1", "0", "-", "C", "1", "2">>
  @@ <<"F", "r", "a", "k", "s", "j", "o", "n", " ", ">", "C", "1", "2", "-", "C", "1", "6">> :> <<"F", "r", "a", "k", "s", "j", "o", "n", "_", "C", "1", "2", "-", "C", "1", "6">>
  @@ <<"F", "r", "a", "k", "s", "j", "o", "n", " ", ">", "C", "1", "6", "-", "C", "3", "5">> :> <<"F", "r", "a", "k", "s", "j", "o", "n", "_", "C", "1", "6", "-", "C", "3", "5">>
  @@ <<"F", "r", "a", "k", "s", "j", "o", "n", " ", ">", "C", "3", "5", "-", "C", "4", "0">> :> <<"F", "r", "a", "k", "s", "j", "o", "n", "_", "C", "3", "5", "-", "C", "4", "0">>
  @@ <<"F", "r", "a", "k", "s", "j", "o", "n", " ", ">", "C", "1", "2", "-", "C", "3", "5", " ", "(", "s", "u", "m", ")">> :> <<"F", "r", "a", "k", "s", "j", "o", "n", "_", "C", "1", "2", "-", "C", "3", "5", "_", "s", "u", "m">>
  @@ <<"F", "r", "a", "k", "s", "j", "o", "n", " ", ">", "C", "1", "2", "-", "C", "3", "5", " ", "(", "s", "u", "m", ",", " ", "M", "1", ")">> :> <<"F", "r", "a", "k", "s", "j", "o", "n", "_", "C", "1", "2", "-", "C", "3", "5", "_", "s", "u", "m">>
  @@ <<"S", "u", "m", " ", ">", "C", "1", "0", "-", "C", "4", "0">> :> <<"S", "u", "m", "_", "C", "1", "0", "-", "C", "4", "0">>
  @@ <<"O", "l", "j", "e", ",", " ", "F", "r", "a", "k", "s", "j", "o", "n", " ", ">", "C", "1", "0", "-", "C", "4", "0">> :> <<"O", "l", "j", "e", "_", "C", "1", "0", "-", "C", "4", "0">>
  @@ <<"C", "l">> :> <<"C", "l">>
  @@ <<"F">> :> <<"F">>
  @@ <<"F", "e", "n", "o", "l", "i", "n", "d", "e", "k", "s">> :> <<"P", "h", "e", "n", "o", "l">>
  @@ <<"D", "O", "C">> :> <<"D", "O", "C">>
  @@ <<"S", "u", "l", "f", "a", "t">> :> <<"S", "O", "4">>
  @@ <<"L", "e", "d", "n", "i", "n", "g", "s", "e", "v", "n", "e", " ", "(", "k", "o", "n", "d", "u", "k", "t", "i", "v", "i", "t", "e", "t", ")">> :> <<"C", "o", "n", "d", "u", "c", "t", "i", "v", "i", "t", "y">>
  @@ <<"E", "l", "e", "k", "t", "r", "i", "s", "k", " ", "k", "o", "n", "d", "u", "k", "t", "i", "v", "i", "t", "e", "t">> :> <<"C", "o", "n", "d", "u", "c", "t", "i", "v", "i", "t", "y">>
  @@ <<"p", "H">> :> <<"p", "H">>
  @@ <<"T", "o/", "r", "r", "s", "t", "o", "f", "f", " ", "v", "e", "d", " ", "1", "0", "5", " ", "g", "r", "a", "d", "e", "r">> :> <<"D", "r", "y", "M", "a", "t", "t", "e", "r">>
  @@ <<"V", "a", "n", "n", "i", "n", "n", "h", "o", "l", "d">> :> <<"W", "a", "t", "e", "r", "C", "o", "n", "t", "e", "n", "t">>
  @@ <<"T", "O", "C">> :> <<"T", "O", "C">>

\* lib/chemistry.py: PARAMETER_ALIASES
PARAMETER_ALIASES ==
  <<"a", "r", "s", "e", "n">> :> <<"A", "s">>
  @@ <<"a", "r", "s", "e", "n", "i", "c">> :> <<"A", "s">>
  @@ <<"a", "s">> :> <<"A", "s">>
  @@ <<"b", "l", "y">> :> <<"P", "b">>
  @@ <<"l", "e", "a", "d">> :> <<"P", "b">>
  @@ <<"p", "b">> :> <<"P", "b">>
  @@ <<"k", "a", "d", "m", "i", "u", "m">> :> <<"C", "d">>
  @@ <<"c", "a", "d", "m", "i", "u", "m">> :> <<"C", "d">>
  @@ <<"c", "d">> :> <<"C", "d">>
  @@ <<"k", "o", "b", "b", "e", "r">> :> <<"C", "u">>
  @@ <<"c", "o", "p", "p", "e", "r">> :> <<"C", "u">>
  @@ <<"c", "u">> :> <<"C", "u">>
  @@ <<"k", "r", "o", "m">> :> <<"C", "r">>
  @@ <<"c", "h", "r", "o", "m", "i", "u", "m">> :> <<"C", "r">>
  @@ <<"c", "r">> :> <<"C", "r">>
  @@ <<"k", "r", "o", "m", " ", "t", "o", "t", "a", "l">> :> <<"C", "r">>
  @@ <<"k", "r", "o", "m", " ", "(", "v", "i", ")">> :> <<"C", "r", "_", "V", "I">>
  @@ <<"k", "r", "o", "m", " ", "v", "i">> :> <<"C", "r", "_", "V", "I">>
  @@ <<"c", "r", "(", "v", "i", ")">> :> <<"C", "r", "_", "V", "I">>
  @@ <<"k", "v", "i", "k", "k", "s", "o/", "l", "v">> :> <<"H", "g">>
  @@ <<"m", "e", "r", "c", "u", "r", "y">> :> <<"H", "g">>
  @@ <<"h", "g">> :> <<"H", "g">>
  @@ <<"n", "i", "k", "k", "e", "l">> :> <<"N", "i">>
  @@ <<"n", "i", "c", "k", "e", "l">> :> <<"N", "i">>
  @@ <<"n", "i">> :> <<"N", "i">>
  @@ <<"s", "i", "n", "k">> :> <<"Z", "n">>
  @@ <<"z", "i", "n", "c">> :> <<"Z", "n">>
  @@ <<"z", "n">> :> <<"Z", "n">>
  @@ <<"j", "e", "r", "n">> :> <<"F", "e">>
  @@ <<"i", "r", "o", "n">> :> <<"F", "e">>
  @@ <<"f", "e">> :> <<"F", "e">>
  @@ <<"m", "a", "n", "g", "a", "n">> :> <<"M", "n">>
  @@ <<"m", "a", "n", "g", "a", "n", "e", "s", "e">> :> <<"M", "n">>
  @@ <<"m", "n">> :> <<"M", "n">>
  @@ <<"b", "a", "r", "i", "u", "m">> :> <<"B", "a">>
  @@ <<"b", "a">> :> <<"B", "a">>
  @@ <<"v", "a", "n", "a", "d", "i", "u", "m">> :> <<"V">>
  @@ <<"v">> :> <<"V">>
  @@ <<"k", "o", "b", "o", "l", "t">> :> <<"C", "o">>
  @@ <<"c", "o", "b", "a", "l", "t">> :> <<"C", "o">>
  @@ <<"c", "o">> :> <<"C", "o">>
  @@ <<"m", "o", "l", "y", "b", "d", "e", "n">> :> <<"M", "o">>
  @@ <<"m", "o", "l", "y", "b", "d", "e", "n", "u", "m">> :> <<"M", "o">>
  @@ <<"m", "o">> :> <<"M", "o">>
  @@ <<"a", "n", "t", "i", "m", "o", "n">> :> <<"S", "b">>
  @@ <<"a", "n", "t", "i", "m", "o", "n", "y">> :> <<"S", "b">>
  @@ <<"s", "b">> :> <<"S", "b">>
  @@ <<"s", "e", "l", "e", "n">> :> <<"S", "e">>
  @@ <<"s", "e", "l", "e", "n", "i", "u", "m">> :> <<"S", "e">>
  @@ <<"s", "e">> :> <<"S", "e">>
  @@ <<"t", "i", "n", "n">> :> <<"S", "n">>
  @@ <<"t", "i", "n">> :> <<"S", "n">>
  @@ <<"s", "n">> :> <<"S", "n">>
  @@ <<"t", "a", "l", "l", "i", "u", "m">> :> <<"T", "l">>
  @@ <<"t", "h", "a", "l", "l", "i", "u", "m">> :> <<"T", "l">>
  @@ <<"t", "l">> :> <<"T", "l">>
  @@ <<"a", "l", "u", "m", "i", "n", "i", "u", "m">> :> <<"A", "l">>
  @@ <<"a", "l">> :> <<"A", "l">>
  @@ <<"b", "e", "r", "y", "l", "l", "i", "u", "m">> :> <<"B", "e">>
  @@ <<"b", "e">> :> <<"B", "e">>
  @@ <<"l", "i", "t", "i", "u", "m">> :> <<"L", "i">>
  @@ <<"l", "i", "t", "h", "i", "u", "m">> :> <<"L", "i">>
  @@ <<"l", "i">> :> <<"L", "i">>
  @@ <<"s", "o/", "l", "v">> :> <<"A", "g">>
  @@ <<"s", "i", "l", "v", "e", "r">> :> <<"A", "g">>
  @@ <<"a", "g">> :> <<"A", "g">>
  @@ <<"w", "o", "l", "f", "r", "a", "m">> :> <<"W">>
  @@ <<"t", "u", "n", "g", "s", "t", "e", "n">> :> <<"W">>
  @@ <<"w">> :> <<"W">>
  @@ <<"t", "h", "c">> :> <<"T", "H", "C">>
  @@ <<"t", "o", "t", "a", "l", " ", "h", "y", "d", "r", "o", "c", "a", "r", "b", "o", "n", "s">> :> <<"T", "H", "C">>
  @@ <<"t", "o", "t", "a", "l", "e", " ", "h", "y", "d", "r", "o", "k", "a", "r", "b", "o", "n", "e", "r">> :> <<"T", "H", "C">>
  @@ <<"t", "p", "h">> :> <<"T", "P", "H">>
  @@ <<"t", "o", "t", "a", "l", " ", "p", "e", "t", "r", "o", "l", "e", "u", "m", " ", "h", "y", "d", "r", "o", "c", "a", "r", "b", "o", "n", "s">> :> <<"T", "P", "H">>
  @@ <<"o", "l", "j", "e">> :> <<"T", "H", "C">>
  @@ <<"o", "i", "l">> :> <<"T", "H", "C">>
  @@ <<"m", "i", "n", "e", "r", "a", "l", "s", "k", " ", "o", "l", "j", "e">> :> <<"T", "H", "C">>
  @@ <<"s", "u", "m", " ", ">", "c", "1", "2", "-", "c", "3", "5">> :> <<"T", "H", "C", "_", "C", "1", "2", "-", "C", "3", "5">>
  @@ <<"o", "l", "j", "e", " ", "s", "u", "m", " ", ">", "c", "1", "2", "-", "c", "3", "5">> :> <<"T", "H", "C", "_", "C", "1", "2", "-", "C", "3", "5">>
  @@ <<">", "c", "1", "0", "-", "c", "1", "2">> :> <<"T", "H", "C", "_", "C", "1", "0", "-", "C", "1", "2">>
  @@ <<"f", "r", "a", "k", "s", "j", "o", "n", " ", ">", "c", "1", "0", "-", "c", "1", "2">> :> <<"T", "H", "C", "_", "C", "1", "0", "-", "C", "1", "2">>
  @@ <<">", "c", "1", "2", "-", "c", "1", "6">> :> <<"T", "H", "C", "_", "C", "1", "2", "-", "C", "1", "6">>
  @@ <<"f", "r", "a", "k", "s", "j", "o", "n", " ", ">", "c", "1", "2", "-", "c", "1", "6">> :> <<"T", "H", "C", "_", "C", "1", "2", "-", "C", "1", "6">>
  @@ <<">", "c", "1", "6", "-", "c", "3", "5">> :> <<"T", "H", "C", "_", "C", "1", "6", "-", "C", "3", "5">>
  @@ <<"f", "r", "a", "k", "s", "j", "o", "n", " ", ">", "c", "1", "6", "-", "c", "3", "5">> :> <<"T", "H", "C", "_", "C", "1", "6", "-", "C", "3", "5">>
  @@ <<">", "c", "1", "2", "-", "c", "3", "5">> :> <<"T", "H", "C", "_", "C", "1", "2", "-", "C", "3", "5">>
  @@ <<"f", "r", "a", "k", "s", "j", "o", "n", " ", ">", "c", "1", "2", "-", "c", "3", "5">> :> <<"T", "H", "C", "_", "C", "1", "2", "-", "C", "3", "5">>
  @@ <<">", "c", "3", "5", "-", "c", "4", "0">> :> <<"T", "H", "C", "_", "C", "3", "5", "-", "C", "4", "0">>
  @@ <<"f", "r", "a", "k", "s", "j", "o", "n", " ", ">", "c", "3", "5", "-", "c", "4", "0">> :> <<"T", "H", "C", "_", "C", "3", "5", "-", "C", "4", "0">>
  @@ <<"c", "1", "0", "-", "c", "4", "0">> :> <<"T", "H", "C", "_", "C", "1", "0", "-", "C", "4", "0">>
  @@ <<"t", "h", "c", " ", "c", "1", "0", "-", "c", "4", "0">> :> <<"T", "H", "C", "_", "C", "1", "0", "-", "C", "4", "0">>
  @@ <<"p", "a", "h">> :> <<"P", "A", "H">>
  @@ <<"p", "o", "l", "y", "c", "y", "c", "l", "i", "c", " ", "a", "r", "o", "m", "a", "t", "i", "c", " ", "h", "y", "d", "r", "o", "c", "a", "r", "b", "o", "n", "s">> :> <<"P", "A", "H">>
  @@ <<"p", "a", "h", "1", "6">> :> <<"P", "A", "H", "1", "6">>
  @@ <<"p", "a", "h", " ", "1", "6">> :> <<"P", "A", "H", "1", "6">>
  @@ <<"s", "u", "m", " ", "p", "a", "h", "1", "6">> :> <<"P", "A", "H", "1", "6">>
  @@ <<"p", "a", "h", "-", "1", "6">> :> <<"P", "A", "H", "1", "6">>
  @@ <<"p", "a", "h", " ", "1", "6", " ", "e", "p", "a">> :> <<"P", "A", "H", "1", "6">>
  @@ <<"s", "u", "m", " ", "p", "a", "h", " ", "1", "6", " ", "e", "p", "a">> :> <<"P", "A", "H", "1", "6">>
  @@ <<"n", "a", "f", "t", "a", "l", "e", "n">> :> <<"N", "a", "p", "h", "t", "h", "a", "l", "e", "n", "e">>
  @@ <<"n", "a", "p", "h", "t", "h", "a", "l", "e", "n", "e">> :> <<"N", "a", "p", "h", "t", "h", "a", "l", "e", "n", "e">>
  @@ <<"a", "c", "e", "n", "a", "f", "t", "y", "l", "e", "n">> :> <<"A", "c", "e", "n", "a", "p", "h", "t", "h", "y", "l", "e", "n", "e">>
  @@ <<"a", "c", "e", "n", "a", "p", "h", "t", "h", "y", "l", "e", "n", "e">> :> <<"A", "c", "e", "n", "a", "p", "h", "t", "h", "y", "l", "e", "n", "e">>
  @@ <<"a", "c", "e", "n", "a", "f", "t", "e", "n">> :> <<"A", "c", "e", "n", "a", "p", "h", "t", "h", "e", "n", "e">>
  @@ <<"a", "c", "e", "n", "a", "p", "h", "t", "h", "e", "n", "e">> :> <<"A", "c", "e", "n", "a", "p", "h", "t", "h", "e", "n", "e">>
  @@ <<"f", "l", "u", "o", "r", "e", "n">> :> <<"F", "l", "u", "o", "r", "e", "n", "e">>
  @@ <<"f", "l", "u", "o", "r", "e", "n", "e">> :> <<"F", "l", "u", "o", "r", "e", "n", "e">>
  @@ <<"f", "e", "n", "a", "n", "t", "r", "e", "n">> :> <<"P", "h", "e", "n", "a", "n", "t", "h", "r", "e", "n", "e">>
  @@ <<"p", "h", "e", "n", "a", "n", "t", "h", "r", "e", "n", "e">> :> <<"P", "h", "e", "n", "a", "n", "t", "h", "r", "e", "n", "e">>
  @@ <<"a", "n", "t", "r", "a", "c", "e", "n">> :> <<"A", "n", "t", "h", "r", "a", "c", "e", "n", "e">>
  @@ <<"a", "n", "t", "h", "r", "a", "c", "e", "n", "e">> :> <<"A", "n", "t", "h", "r", "a", "c", "e", "n", "e">>
  @@ <<"f", "l", "u", "o", "r", "a", "n", "t", "e", "n">> :> <<"F", "l", "u", "o", "r", "a", "n", "t", "h", "e", "n", "e">>
  @@ <<"f", "l", "u", "o", "r", "a", "n", "t", "h", "e", "n", "e">> :> <<"F", "l", "u", "o", "r", "a", "n", "t", "h", "e", "n", "e">>
  @@ <<"p", "y", "r", "e", "n">> :> <<"P", "y", "r", "e", "n", "e">>
  @@ <<"p", "y", "r", "e", "n", "e">> :> <<"P", "y", "r", "e", "n", "e">>
  @@ <<"b", "e", "n", "z", "o", "(", "a", ")", "a", "n", "t", "r", "a", "c", "e", "n">> :> <<"B", "a", "A">>
  @@ <<"b", "e", "n", "z", "o", "[", "a", "]", "a", "n", "t", "h", "r", "a", "c", "e", "n", "e">> :> <<"B", "a", "A">>
  @@ <<"k", "r", "y", "s", "e", "n">> :> <<"C", "h", "r", "y", "s", "e", "n", "e">>
  @@ <<"c", "h", "r", "y", "s", "e", "n", "e">> :> <<"C", "h", "r", "y", "s", "e", "n", "e">>
  @@ <<"b", "e", "n", "z", "o", "(", "b", ")", "f", "l", "u", "o", "r", "a", "n", "t", "e", "n">> :> <<"B", "b", "F">>
  @@ <<"b", "e", "n", "z", "o", "[", "b", "]", "f", "l", "u", "o", "r", "a", "n", "t", "h", "e", "n", "e">> :> <<"B", "b", "F">>
  @@ <<"b", "e", "n", "z", "o", "(", "k", ")", "f", "l", "u", "o", "r", "a", "n", "t", "e", "n">> :> <<"B", "k", "F">>
  @@ <<"b", "e", "n", "z", "o", "[", "k", "]", "f", "l", "u", "o", "r", "a", "n", "t", "h", "e", "n", "e">> :> <<"B", "k", "F">>
  @@ <<"b", "e", "n", "z", "o", "(", "a", ")", "p", "y", "r", "e", "n">> :> <<"B", "a", "P">>
  @@ <<"b", "e", "n", "z", "o", "[", "a", "]", "p", "y", "r", "e", "n", "e">> :> <<"B", "a", "P">>
  @@ <<"i", "n", "d", "e", "n", "o", "(", "1", ",", "2", ",", "3", "-", "c", "d", ")", "p", "y", "r", "e", "n">> :> <<"I", "c", "d", "P">>
  @@ <<"i", "n", "d", "e", "n", "o", "[", "1", ",", "2", ",", "3", "-", "c", "d", "]", "p", "y", "r", "e", "n", "e">> :> <<"I", "c", "d", "P">>
  @@ <<"d", "i", "b", "e", "n", "z", "o", "(", "a", ",", "h", ")", "a", "n", "t", "r", "a", "c", "e", "n">> :> <<"D", "a", "h", "A">>
  @@ <<"d", "i", "b", "e", "n", "z", "[", "a", ",", "h", "]", "a", "n", "t", "h", "r", "a", "c", "e", "n", "e">> :> <<"D", "a", "h", "A">>
  @@ <<"b", "e", "n", "z", "o", "(", "g", "h", "i", ")", "p", "e", "r", "y", "l", "e", "n">> :> <<"B", "g", "h", "i", "P">>
  @@ <<"b", "e", "n", "z", "o", "[", "g", "h", "i", "]", "p", "e", "r", "y", "l", "e", "n", "e">> :> <<"B", "g", "h", "i", "P">>
  @@ <<"p", "c", "b">> :> <<"P", "C", "B">>
  @@ <<"p", "o", "l", "y", "c", "h", "l", "o", "r", "i", "n", "a", "t", "e", "d", " ", "b", "i", "p", "h", "e", "n", "y", "l", "s">> :> <<"P", "C", "B">>
  @@ <<"p", "c", "b", "7">> :> <<"P", "C", "B", "7">>
  @@ <<"p", "c", "b", " ", "7">> :> <<"P", "C", "B", "7">>
  @@ <<"s", "u", "m", " ", "p", "c", "b", "7">> :> <<"P", "C", "B", "7">>
  @@ <<"p", "c", "b", "-", "7">> :> <<"P", "C", "B", "7">>
  @@ <<"p", "c", "b", " ", "7", " ", "(", "s", "e", "v", "e", "n", " ", "d", "u", "t", "c", "h", ")">> :> <<"P", "C", "B", "7">>
  @@ <<"p", "c", "b", " ", "2", "8">> :> <<"P", "C", "B", "2", "8">>
  @@ <<"p", "c", "b", "2", "8">> :> <<"P", "C", "B", "2", "8">>
  @@ <<"p", "c", "b", " ", "5", "2">> :> <<"P", "C", "B", "5", "2">>
  @@ <<"p", "c", "b", "5", "2">> :> <<"P", "C", "B", "5", "2">>
  @@ <<"p", "c", "b", " ", "1", "0", "1">> :> <<"P", "C", "B", "1", "0", "1">>
  @@ <<"p", "c", "b", "1", "0", "1">> :> <<"P", "C", "B", "1", "0", "1">>
  @@ <<"p", "c", "b", " ", "1", "1", "8">> :> <<"P", "C", "B", "1", "1", "8">>
  @@ <<"p", "c", "b", "1", "1", "8">> :> <<"P", "C", "B", "1", "1", "8">>
  @@ <<"p", "c", "b", " ", "1", "3", "8">> :> <<"P", "C", "B", "1", "3", "8">>
  @@ <<"p", "c", "b", "1", "3", "8">> :> <<"P", "C", "B", "1", "3", "8">>
  @@ <<"p", "c", "b", " ", "1", "5", "3">> :> <<"P", "C", "B", "1", "5", "3">>
  @@ <<"p", "c", "b", "1", "5", "3">> :> <<"P", "C", "B", "1", "5", "3">>
  @@ <<"p", "c", "b", " ", "1", "8", "0">> :> <<"P", "C", "B", "1", "8", "0">>
  @@ <<"p", "c", "b", "1", "8", "0">> :> <<"P", "C", "B", "1", "8", "0">>
  @@ <<"b", "t", "e", "x">> :> <<"B", "T", "E", "X">>
  @@ <<"s", "u", "m", " ", "b", "t", "e", "x">> :> <<"B", "T", "E", "X">>
  @@ <<"b", "e", "n", "z", "e", "n">> :> <<"B", "e", "n", "z", "e", "n", "e">>
  @@ <<"b", "e", "n", "z", "e", "n", "e">> :> <<"B", "e", "n", "z", "e", "n", "e">>
  @@ <<"t", "o", "l", "u", "e", "n">> :> <<"T", "o", "l", "u", "e", "n", "e">>
  @@ <<"t", "o", "l", "u", "e", "n", "e">> :> <<"T", "o", "l", "u", "e", "n", "e">>
  @@ <<"e", "t", "y", "l", "b", "e", "n", "z", "e", "n">> :> <<"E", "t", "h", "y", "l", "b", "e", "n", "z", "e", "n", "e">>
  @@ <<"e", "t", "h", "y", "l", "b", "e", "n", "z", "e", "n", "e">> :> <<"E", "t", "h", "y", "l", "b", "e", "n", "z", "e", "n", "e">>
  @@ <<"x", "y", "l", "e", "n">> :> <<"X", "y", "l", "e", "n", "e">>
  @@ <<"x", "y", "l", "e", "n", "e">> :> <<"X", "y", "l", "e", "n", "e">>
  @@ <<"x", "y", "l", "e", "n", "e", "r">> :> <<"X", "y", "l", "e", "n", "e">>
  @@ <<"m", ",", "p", "-", "x", "y", "l", "e", "n">> :> <<"X", "y", "l", "e", "n", "e", "_", "m", "p">>
  @@ <<"o", "-", "x", "y", "l", "e", "n">> :> <<"X", "y", "l", "e", "n", "e", "_", "o">>
  @@ <<"p", "f", "a", "s">> :> <<"P", "F", "A", "S">>
  @@ <<"s", "u", "m", " ", "p", "f", "a", "s">> :> <<"P", "F", "A", "S">>
  @@ <<"p", "f", "o", "s">> :> <<"P", "F", "O", "S">>
  @@ <<"p", "f", "o", "a">> :> <<"P", "F", "O", "A">>
  @@ <<"t", "o/", "r", "r", "s", "t", "o", "f", "f">> :> <<"D", "r", "y", "M", "a", "t", "t", "e", "r">>
  @@ <<"d", "r", "y", " ", "m", "a", "t", "t", "e", "r">> :> <<"D", "r", "y", "M", "a", "t", "t", "e", "r">>
  @@ <<"t", "s">> :> <<"D", "r", "y", "M", "a", "t", "t", "e", "r">>
  @@ <<"t", "o/", "r", "r", "s", "t", "o", "f", "f", " ", "(", "t", "s", ")">> :> <<"D", "r", "y", "M", "a", "t", "t", "e", "r">>
  @@ <<"t", "s", "%">> :> <<"D", "r", "y", "M", "a", "t", "t", "e", "r">>
  @@ <<"p", "h">> :> <<"p", "H">>
  @@ <<"t", "o", "c">> :> <<"T", "O", "C">>
  @@ <<"t", "o", "t", "a", "l", " ", "o", "r", "g", "a", "n", "i", "c", " ", "c", "a", "r", "b", "o", "n">> :> <<"T", "O", "C">>
  @@ <<"t", "o", "t", "a", "l", "t", " ", "o", "r", "g", "a", "n", "i", "s", "k", " ", "k", "a", "r", "b", "o", "n">> :> <<"T", "O", "C">>
  @@ <<"g", "l", "o/", "d", "e", "t", "a", "p">> :> <<"L", "O", "I">>
  @@ <<"l", "o", "s", "s", " ", "o", "n", " ", "i", "g", "n", "i", "t", "i", "o", "n">> :> <<"L", "O", "I">>
  @@ <<"k", "o", "r", "n", "f", "o", "r", "d", "e", "l", "i", "n", "g">> :> <<"G", "r", "a", "i", "n", "S", "i", "z", "e">>
  @@ <<"s", "i", "k", "t", "e", "k", "u", "r", "v", "e">> :> <<"G", "r", "a", "i", "n", "S", "i", "z", "e">>
  @@ <<"l", "e", "i", "r", "e">> :> <<"C", "l", "a", "y">>
  @@ <<"s", "i", "l", "t">> :> <<"S", "i", "l", "t">>
  @@ <<"s", "a", "n", "d">> :> <<"S", "a", "n", "d">>
  @@ <<"g", "r", "u", "s">> :> <<"G", "r", "a", "v", "e", "l">>
  @@ <<"n", "i", "t", "r", "o", "g", "e", "n">> :> <<"N">>
  @@ <<"t", "o", "t", "a", "l", " ", "n", "i", "t", "r", "o", "g", "e", "n">> :> <<"N", "_", "t", "o", "t", "a", "l">>
  @@ <<"t", "o", "t", "a", "l", "-", "n">> :> <<"N", "_", "t", "o", "t", "a", "l">>
  @@ <<"a", "m", "m", "o", "n", "i", "u", "m">> :> <<"N", "H", "4">>
  @@ <<"n", "h", "4">> :> <<"N", "H", "4">>
  @@ <<"a", "m", "m", "o", "n", "i", "u", "m", "-", "n">> :> <<"N", "H", "4">>
  @@ <<"n", "i", "t", "r", "a", "t">> :> <<"N", "O", "3">>
  @@ <<"n", "o", "3">> :> <<"N", "O", "3">>
  @@ <<"n", "i", "t", "r", "a", "t", "-", "n">> :> <<"N", "O", "3">>
  @@ <<"n", "i", "t", "r", "i", "t", "t">> :> <<"N", "O", "2">>
  @@ <<"n", "o", "2">> :> <<"N", "O", "2">>
  @@ <<"n", "i", "t", "r", "i", "t", "t", "-", "n">> :> <<"N", "O", "2">>
  @@ <<"c", "y", "a", "n", "i", "d">> :> <<"C", "N">>
  @@ <<"c", "y", "a", "n", "i", "d", "e">> :> <<"C", "N">>
  @@ <<"c", "n">> :> <<"C", "N">>
  @@ <<"s", "u", "l", "f", "a", "t">> :> <<"S", "O", "4">>
  @@ <<"s", "u", "l", "p", "h", "a", "t", "e">> :> <<"S", "O", "4">>
  @@ <<"k", "l", "o", "r", "i", "d">> :> <<"C", "l">>
  @@ <<"c", "h", "l", "o", "r", "i", "d", "e">> :> <<"C", "l">>
  @@ <<"f", "l", "u", "o", "r", "i", "d">> :> <<"F">>
  @@ <<"f", "l", "u", "o", "r", "i", "d", "e">> :> <<"F">>

LowerCase ==
  "A" :> "a" @@ "B" :> "b" @@ "C" :> "c" @@ "D" :> "d" @@ "E" :> "e" @@ "F" :> "f"
  @@ "G" :> "g" @@ "H" :> "h" @@ "I" :> "i" @@ "J" :> "j" @@ "K" :> "k" @@ "L" :> "l"
  @@ "M" :> "m" @@ "N" :> "n" @@ "O" :> "o" @@ "P" :> "p" @@ "Q" :> "q" @@ "R" :> "r"
  @@ "S" :> "s" @@ "T" :> "t" @@ "U" :> "u" @@ "V" :> "v" @@ "W" :> "w" @@ "X" :> "x"
  @@ "Y" :> "y" @@ "Z" :> "z" @@ "O/" :> "o/" @@ "Ao" :> "ao"

UpperCase ==
  "a" :> "A" @@ "b" :> "B" @@ "c" :> "C" @@ "d" :> "D" @@ "e" :> "E" @@ "f" :> "F"
  @@ "g" :> "G" @@ "h" :> "H" @@ "i" :> "I" @@ "j" :> "J" @@ "k" :> "K" @@ "l" :> "L"
  @@ "m" :> "M" @@ "n" :> "N" @@ "o" :> "O" @@ "p" :> "P" @@ "q" :> "Q" @@ "r" :> "R"
  @@ "s" :> "S" @@ "t" :> "T" @@ "u" :> "U" @@ "v" :> "V" @@ "w" :> "W" @@ "x" :> "X"
  @@ "y" :> "Y" @@ "z" :> "Z" @@ "o/" :> "O/" @@ "ao" :> "Ao"

\* the characters str.strip() removes and \s matches
Whitespace == {" ", "\t"}

\* str.strip()
RECURSIVE lstrip(_)
lstrip(s) == IF Len(s) > 0 /\ s[1] \in Whitespace THEN lstrip(Tail(s)) ELSE s

RECURSIVE rstrip(_)
rstrip(s) ==
  IF Len(s) > 0 /\ s[Len(s)] \in Whitespace
  THEN rstrip(SubSeq(s, 1, Len(s) - 1))
  ELSE s

strip(s) == rstrip(lstrip(s))

\* str.lower(), str.upper(), str.capitalize()
lower(s) == [k \in DOMAIN s |-> IF s[k] \in DOMAIN LowerCase THEN LowerCase[s[k]] ELSE s[k]]

upper(s) == [k \in DOMAIN s |-> IF s[k] \in DOMAIN UpperCase THEN UpperCase[s[k]] ELSE s[k]]

capitalize(s) ==
  IF Len(s) = 0 THEN s ELSE upper(SubSeq(s, 1, 1)) \o lower(SubSeq(s, 2, Len(s)))

\* re.sub(r'^(sum\s+|total\s+)', '', clean)
sub_prefix(clean) ==
  LET matches(word) ==
        /\ Len(clean) > Len(word)
        /\ SubSeq(clean, 1, Len(word)) = word
        /\ clean[Len(word) + 1] \in Whitespace
      rest(word) == lstrip(SubSeq(clean, Len(word) + 1, Len(clean)))
  IN  IF matches(<<"s", "u", "m">>) THEN rest(<<"s", "u", "m">>)
      ELSE IF matches(<<"t", "o", "t", "a", "l">>) THEN rest(<<"t", "o", "t", "a", "l">>)
      ELSE clean

\* re.sub(r'\s*\(.*\)$', '', clean): when the string ends with ")" the match
\* starts at the whitespace before the first "(" and runs to the end
sub_parenthetical(clean) ==
  IF Len(clean) > 0 /\ clean[Len(clean)] = ")" /\ \E i \in DOMAIN clean : clean[i] = "("
  THEN LET open == CHOOSE i \in DOMAIN clean :
                     clean[i] = "(" /\ \A j \in 1..(i - 1) : clean[j] # "("
       IN  rstrip(SubSeq(clean, 1, open - 1))
  ELSE clean

(* lib/chemistry.py: normalize_parameter_name(name), as the pair of the     *)
(* returned string and whether a table held the label (the return of line   *)
(* 616 or 627) or the stripped label itself was returned (line 630).        *)
normalize_lookup(name) ==
  LET name_str == strip(name)
      clean == sub_parenthetical(sub_prefix(lower(name_str)))
  IN  IF Len(name) = 0 THEN << << >>, FALSE >>
      ELSE IF name_str \in DOMAIN EUROFINS_ALI_COLUMN_MAP
      THEN <<EUROFINS_ALI_COLUMN_MAP[name_str], TRUE>>
      ELSE IF clean \in DOMAIN PARAMETER_ALIASES
      THEN <<PARAMETER_ALIASES[clean], TRUE>>
      ELSE <<name_str, FALSE>>

normalize_parameter_name(name) == normalize_lookup(name)[1]

\* lib/chemistry.py: get_parameter_code(column_name), as such a pair
get_parameter_code_lookup(column_name) ==
  LET name_str == strip(column_name)
  IN  IF Len(column_name) = 0 THEN << << >>, FALSE >>
      ELSE IF name_str \in DOMAIN ALS_EXCEL_COLUMN_MAP
      THEN <<ALS_EXCEL_COLUMN_MAP[name_str], TRUE>>
      ELSE IF name_str \in DOMAIN EUROFINS_ALI_COLUMN_MAP
      THEN <<EUROFINS_ALI_COLUMN_MAP[name_str], TRUE>>
      ELSE normalize_lookup(name_str)

get_parameter_code(column_name) == get_parameter_code_lookup(column_name)[1]

\* the function f of the normalizer applied to a label
Lookup(f, label) ==
  IF f = "normalize_parameter_name" THEN normalize_lookup(label)
  ELSE get_parameter_code_lookup(label)

\* projects/p18_hestnestunnelen.py: SKIP_COLUMNS
SKIP_COLUMNS ==
  { <<"E", "u", "r", "o", "f", "i", "n", "s", " ", "o", "p", "p", "d", "r", "a", "g", "s", "m", "e", "r", "k", "i", "n", "g">>,
    <<"E", "u", "r", "o", "f", "i", "n", "s", " ", "p", "r", "o/", "v", "e", "n", "u", "m", "m", "e", "r">>,
    <<"P", "r", "o/", "v", "e", "m", "e", "r", "k", "i", "n", "g">>,
    <<"F", "r", "a", " ", "p", "e", "l">>,
    <<"T", "i", "l", " ", "P", "e", "l">>,
    <<"T", "e", "s", "t", "/", "u", "t", "g", "ao", "t", "t">>,
    <<"K", "o", "m", "m", "e", "n", "t", "a", "r">>,
    <<"M", "e", "r", "k", "n", "a", "d">> }

\* projects/p18_hestnestunnelen.py: read_sheet, lines 350-357: whether the
\* column excel_col is skipped
read_sheet_skips(excel_col) ==
  \/ excel_col \in SKIP_COLUMNS
  \/ LET param_code == get_parameter_code(excel_col)
     IN  param_code = << >> \/ param_code = excel_col

----------------------------------------------------------------------------
(* The value parsers.  float(s) of Python is modelled for the texts made of *)
(* digits and at most one point, with at most five decimals, which is what  *)
(* the laboratories report; every other text raises ValueError.             *)

Digit ==
  "0" :> 0 @@ "1" :> 1 @@ "2" :> 2 @@ "3" :> 3 @@ "4" :> 4
  @@ "5" :> 5 @@ "6" :> 6 @@ "7" :> 7 @@ "8" :> 8 @@ "9" :> 9

\* the characters [a-zA-Z] matches
Letters == (DOMAIN LowerCase \cup DOMAIN UpperCase) \ {"o/", "O/", "ao", "Ao"}

\* the number a text of digits denotes
RECURSIVE int(_)
int(s) == IF Len(s) = 0 THEN 0 ELSE 10 * int(SubSeq(s, 1, Len(s) - 1)) + Digit[s[Len(s)]]

\* the result of float(s) when it raises ValueError
ValueError == <<"ValueError">>

\* float(s): surrounding whitespace is ignored
float(s) ==
  LET t == strip(s)
      points == {k \in DOMAIN t : t[k] = "."}
      point == IF points = {} THEN Len(t) + 1 ELSE CHOOSE k \in points : TRUE
      whole == SubSeq(t, 1, point - 1)
      decimals == SubSeq(t, point + 1, Len(t))
      padded == decimals \o SubSeq(<<"0", "0", "0", "0", "0">>, 1, 5 - Len(decimals))
  IN  IF /\ \A k \in DOMAIN t : t[k] \in DOMAIN Digit \/ t[k] = "."
         /\ Cardinality(points) <= 1
         /\ Len(whole) + Len(decimals) > 0
         /\ Len(decimals) <= 5
      THEN Dec(int(whole), int(padded))
      ELSE ValueError

\* str.replace(old, new) for a character old and a string new
RECURSIVE replace(_, _, _)
replace(s, old, new) ==
  IF Len(s) = 0 THEN s
  ELSE (IF s[1] = old THEN new ELSE <<s[1]>>) \o replace(Tail(s), old, new)

\* str.startswith(prefix)
startswith(s, prefix) == Len(s) >= Len(prefix) /\ SubSeq(s, 1, Len(prefix)) = prefix

\* the string without its longest prefix of characters of the set chars
RECURSIVE drop_leading(_, _)
drop_leading(s, chars) ==
  IF Len(s) > 0 /\ s[1] \in chars THEN drop_leading(Tail(s), chars) ELSE s

\* the string without its longest suffix of characters of the set chars
RECURSIVE drop_trailing(_, _)
drop_trailing(s, chars) ==
  IF Len(s) > 0 /\ s[Len(s)] \in chars
  THEN drop_trailing(SubSeq(s, 1, Len(s) - 1), chars)
  ELSE s

\* lib/chemistry.py: parse_value, the list of line 697
NotDetected ==
  { <<"n", ".", "d", ".">>, <<"n", "d">>, <<"i", "k", "k", "e", " ", "p", "ao", "v", "i", "s", "t">>, <<"n", "o", "t", " ", "d", "e", "t", "e", "c", "t", "e", "d">>, <<"-">>, <<"i", ".", "p", ".">> }

\* lib/chemistry.py: parse_value(value), the pair it returns
parse_value(raw) ==
  IF raw = None THEN <<None, FALSE>>
  ELSE
    LET stripped == strip(raw)
        below_limit == startswith(stripped, <<"<">>) \/ startswith(stripped, <<"&", "l", "t", ";">>)
        \* re.sub(r'^[<&lt;]+\s*', '', value_str)
        value_str ==
          IF below_limit
          THEN drop_leading(drop_leading(stripped, {"<", "&", "l", "t", ";"}), Whitespace)
          ELSE stripped
        \* .replace(',', '.').replace(' ', ''), re.sub(r'[a-zA-Z/]+$', '', value_str)
        number_str ==
          drop_trailing(replace(replace(value_str, ",", <<".">>), " ", << >>),
                        Letters \cup {"/"})
        numeric == float(number_str)
    IN  IF lower(value_str) \in NotDetected THEN <<Zero, TRUE>>
        ELSE IF numeric = ValueError THEN <<None, FALSE>>
        ELSE <<numeric, below_limit>>

\* projects/p01_e18_e102.py and projects/p18_hestnestunnelen.py:
\* parse_value(val), the triple it returns; `unparsed` are the values the
\* first test of the function compares val with
excel_parse_value(val, unparsed) ==
  IF val = None \/ val \in unparsed THEN <<None, FALSE, None>>
  ELSE
    LET val_str == strip(val)
        loq == float(replace(replace(strip(Tail(val_str)), ",", <<".">>), " ", << >>))
        number == float(replace(val_str, ",", <<".">>))
    IN  IF startswith(val_str, <<"<">>)
        THEN IF loq = ValueError THEN <<None, TRUE, None>> ELSE <<loq, TRUE, loq>>
        ELSE IF number = ValueError THEN <<None, FALSE, None>>
        ELSE <<number, FALSE, None>>

\* projects/p01_e18_e102.py: parse_value(val)
p01_parse_value(val) == excel_parse_value(val, { << >>, <<"n", "d">> })

\* projects/p18_hestnestunnelen.py: parse_value(val)
p18_parse_value(val) == excel_parse_value(val, { << >>, <<"n", "d">>, <<"U", "t", "g", "ao", "r">> })

\* the least index from `from` on whose character is not in chars
RECURSIVE first_not(_, _, _)
first_not(s, from, chars) ==
  IF from <= Len(s) /\ s[from] \in chars THEN first_not(s, from + 1, chars) ELSE from

\* lib/chemistry.py: parse_uncertainty(value), with
\* re.search(r'[±+/-]+\s*(\d+[.,]?\d*)', value_str)
parse_uncertainty(raw) ==
  LET signs == {"+-", "+", "/", "-"}
      digits == DOMAIN Digit
      number_at(p) == first_not(raw, first_not(raw, p, signs), Whitespace)
      starts == {p \in DOMAIN raw :
                   /\ raw[p] \in signs
                   /\ number_at(p) <= Len(raw)
                   /\ raw[number_at(p)] \in digits}
  IN  IF starts = {} THEN None
      ELSE
        LET first == number_at(CHOOSE p \in starts : \A q \in starts : p <= q)
            whole_end == first_not(raw, first, digits)
            last == IF whole_end <= Len(raw) /\ raw[whole_end] \in {".", ","}
                    THEN first_not(raw, whole_end + 1, digits)
                    ELSE whole_end
            number == float(replace(SubSeq(raw, first, last - 1), ",", <<".">>))
        IN  IF number = ValueError THEN None ELSE number

\* lib/parsers/als_pdf.py: _build_als_result; the dictionary it returns is a
\* record inside a tuple, None the empty tuple
_build_als_result(sample_id, param_code, param_raw, value_str, unit, uncertainty_str, analysis_type) ==
  LET uncertainty ==
        IF uncertainty_str = None THEN None
        ELSE LET u == float(replace(uncertainty_str, ",", <<".">>))
             IN  IF u = ValueError THEN None ELSE u
      below == startswith(value_str, <<"<">>)
      limit == float(Tail(value_str))
      not_detected == lower(value_str) \in { <<"n", ".", "d", ".">>, <<"n", "d">>, <<"n", ".", "d">> }
      number == float(value_str)
      result(value_or_none, below_limit, loq) ==
        Some([sample_id |-> sample_id, parameter |-> param_code,
              parameter_raw |-> param_raw, value |-> value_or_none, unit |-> unit,
              uncertainty |-> uncertainty, below_limit |-> below_limit,
              loq |-> loq, analysis_type |-> analysis_type])
  IN  IF below
      THEN IF limit = ValueError THEN result(None, TRUE, None)
           ELSE result(limit, TRUE, limit)
      ELSE IF not_detected THEN result(Zero, TRUE, None)
      ELSE IF number = ValueError THEN None
      ELSE result(number, FALSE, None)

\* lib/chemistry.py: format_result_for_csv
format_result_for_csv(sample_id, parameter_raw, value_raw, unit, loq) ==
  LET parameter_std == normalize_parameter_name(parameter_raw)
      value_and_flag == parse_value(value_raw)
      uncertainty == parse_uncertainty(value_raw)
  IN  [sample_id |-> sample_id, parameter |-> parameter_std,
       parameter_raw |-> parameter_raw, value |-> value_and_flag[1], unit |-> unit,
       uncertainty |-> uncertainty, below_limit |-> value_and_flag[2], loq |-> loq]

----------------------------------------------------------------------------
(* Python floats are IEEE 754 doubles.  A positive double is the pair       *)
(* <<m, e>> of its 53 bit significand m, 2^52 <= m < 2^53, and its exponent *)
(* e: the number m * 2^e.  Significands are natural numbers held as         *)
(* sequences of limbs, least significant first, without leading zero limbs, *)
(* so that equal numbers are equal sequences.  Multiplication and division  *)
(* round to the nearest double, ties to the even significand.               *)
Base == 2^13

\* the function f on 1..n as the sequence of its values
seq(f) == << >> \o f

\* the sequence a without its leading zero limbs
trimmed(a) ==
  SubSeq(a, 1, CHOOSE m \in 0..Len(a) : (m = 0 \/ a[m] # 0) /\ \A i \in (m + 1)..Len(a) : a[i] = 0)

trim(a) == trimmed(seq(a))

\* the natural number n < 2^31 as limbs
big(n) == trim(<<n % Base, (n \div Base) % Base, n \div (Base * Base)>>)

limb(a, i) == IF 1 <= i /\ i <= Len(a) THEN a[i] ELSE 0

\* a + b: limb i receives a carry when a lower limb j overflows and the limbs
\* between them are all Base - 1
add(a, b) ==
  LET s(i) == limb(a, i) + limb(b, i)
      carry(i) == IF \E j \in 1..(i - 1) : s(j) >= Base /\ \A k \in (j + 1)..(i - 1) : s(k) = Base - 1
                  THEN 1 ELSE 0
  IN  trim([i \in 1..(IF Len(a) > Len(b) THEN Len(a) + 1 ELSE Len(b) + 1) |-> (s(i) + carry(i)) % Base])

\* a - b for a >= b
sub(a, b) ==
  LET t(i) == a[i] - limb(b, i)
      borrow(i) == IF \E j \in 1..(i - 1) : t(j) < 0 /\ \A k \in (j + 1)..(i - 1) : t(k) = 0
                   THEN 1 ELSE 0
  IN  trim([i \in 1..Len(a) |-> (t(i) - borrow(i) + Base) % Base])

\* a < b, for a and b without leading zero limbs
less(a, b) ==
  IF Len(a) # Len(b) THEN Len(a) < Len(b)
  ELSE \E i \in 1..Len(a) : a[i] < b[i] /\ \A k \in (i + 1)..Len(a) : a[k] = b[k]

\* a * k for 0 <= k <= Base
times(a, k) ==
  add(seq([i \in 1..Len(a) |-> (a[i] * k) % Base]), <<0>> \o [i \in 1..Len(a) |-> (a[i] * k) \div Base])

RECURSIVE total(_)
total(s) == IF Len(s) = 0 THEN 0 ELSE Head(s) + total(Tail(s))

\* a * b for a and b of at most five limbs: the sums of the limb products of
\* each weight, then their carries
mul(a, b) ==
  LET column(k) == total([i \in 1..Len(a) |-> a[i] * limb(b, k + 1 - i)])
      weights == 1..(Len(a) + Len(b) - 1)
  IN  IF Len(a) = 0 \/ Len(b) = 0 THEN << >>
      ELSE add(add(seq([k \in weights |-> column(k) % Base]),
                   <<0>> \o [k \in weights |-> (column(k) \div Base) % Base]),
               <<0, 0>> \o [k \in weights |-> column(k) \div (Base * Base)])

\* the number of bits of the limb n
bits(n) == CHOOSE k \in 0..13 : n < 2^k /\ (k = 0 \/ 2^(k - 1) <= n)

\* the number of bits of a
bitlen(a) == IF Len(a) = 0 THEN 0 ELSE 13 * (Len(a) - 1) + bits(a[Len(a)])

\* a * 2^k
shl(a, k) ==
  IF Len(a) = 0 THEN a
  ELSE [i \in 1..(k \div 13) |-> 0]
       \o trim([i \in 1..(Len(a) + 1) |->
                  ((limb(a, i) * 2^(k % 13)) % Base) + (limb(a, i - 1) \div 2^(13 - (k % 13)))])

\* <<q, rest - q * d>> for the greatest limb q <= x with q * d <= rest, where
\* product is x * d
RECURSIVE limb_from(_, _, _)
limb_check(rest, d, x, product) ==
  IF less(rest, product) THEN limb_from(rest, d, x - 1) ELSE <<x, sub(rest, product)>>

limb_from(rest, d, x) == limb_check(rest, d, x, times(d, x))

\* the limb qr[1] below the quotient so far, with the remainder qr[2]
with_limb(quotient, qr) == <<trim(<<qr[1]>> \o quotient), qr[2]>>

\* one step of long division by d, whose leading limb is at least Base / 2,
\* for rest < d * Base: the limb of the quotient is at most its estimate from
\* the two leading limbs of rest, and at most 2 below it
div_limb(rest, d, quotient) ==
  with_limb(quotient,
            limb_from(rest, d,
                      IF (limb(rest, Len(d) + 1) * Base + limb(rest, Len(d))) \div d[Len(d)] < Base
                      THEN (limb(rest, Len(d) + 1) * Base + limb(rest, Len(d))) \div d[Len(d)]
                      ELSE Base - 1))

\* long division of n by d, one limb of n after the other from limb j down;
\* done is <<quotient, remainder>> of the limbs above j.  A zero limb below a
\* zero remainder gives the limb 0
RECURSIVE div_down(_, _, _, _)
div_down(n, d, j, done) ==
  IF j <= 0 THEN done
  ELSE IF done[2] = << >> /\ n[j] = 0 THEN div_down(n, d, j - 1, <<trim(<<0>> \o done[1]), << >> >>)
  ELSE div_down(n, d, j - 1, div_limb(trim(<<n[j]>> \o done[2]), d, done[1]))

\* the limbs of n above limb j are fewer than the limbs of d: a remainder
div_below(n, d, j) == div_down(n, d, j, << << >>, SubSeq(n, j + 1, Len(n)) >>)

\* <<n \div d, n % d>> for d whose leading limb is at least Base / 2
divmod(n, d) == div_below(n, d, IF Len(n) < Len(d) THEN 0 ELSE Len(n) + 1 - Len(d))

\* a significand of 54 bits after rounding up is 2^53: the next exponent
normal(significand, shift) ==
  IF bitlen(significand) > 53 THEN <<shl(<<1>>, 52), 1 - shift>> ELSE <<significand, -shift>>

\* the quotient qr[1] with remainder qr[2] by den rounded to nearest, ties to
\* even; an exact quotient is not rounded
round_to_even(qr, den, shift) ==
  IF qr[2] = << >> THEN normal(qr[1], shift)
  ELSE IF less(den, add(qr[2], qr[2])) \/ (add(qr[2], qr[2]) = den /\ qr[1][1] % 2 = 1)
  THEN normal(add(qr[1], <<1>>), shift)
  ELSE normal(qr[1], shift)

\* num / den with the leading limb of den made at least Base / 2
round_scaled(num, den, s, shift) == round_to_even(divmod(shl(num, s), shl(den, s)), shl(den, s), shift)

round_fraction(num, den, shift) == round_scaled(num, den, 13 - bits(den[Len(den)]), shift)

\* n / d * 2^shift as the fraction of two natural numbers
round_shift(n, d, shift) ==
  IF shift >= 0 THEN round_fraction(shl(n, shift), d, shift) ELSE round_fraction(n, shl(d, -shift), shift)

\* n / d * 2^shift has 53 bits for shift = 53 - delta when n / d < 2^delta, and
\* for shift = 52 - delta otherwise
round_delta(n, d, delta) ==
  IF (IF delta >= 0 THEN less(n, shl(d, delta)) ELSE less(shl(n, -delta), d))
  THEN round_shift(n, d, 53 - delta)
  ELSE round_shift(n, d, 52 - delta)

\* the double nearest to n / d for n > 0, d > 0
round(n, d) == round_delta(n, d, bitlen(n) - bitlen(d))

\* 0.0
FloatZero == << << >>, 0 >>

\* the float literal n / d of the source text, for natural numbers n and d
Float(n, d) == IF n = 0 THEN FloatZero ELSE round(big(n), big(d))

\* the double r * 2^e
scaled(r, e) == <<r[1], r[2] + e>>

\* a * b and a / b of floats
fmul(a, b) ==
  IF a = FloatZero \/ b = FloatZero THEN FloatZero
  ELSE scaled(round(mul(a[1], b[1]), <<1>>), a[2] + b[2])

\* division by 0.0 raises
ZeroDivisionError == <<"ZeroDivisionError">>

fdiv(a, b) ==
  IF b = FloatZero THEN ZeroDivisionError
  ELSE IF a = FloatZero THEN FloatZero
  ELSE scaled(round(a[1], b[1]), a[2] - b[2])
\* the decimal literal n / d of the source text; its value is the double
\* nearest to it
Literal(n, d) == <<n, d>>

literal_value(l) == Float(l[1], l[2])

\* lib/conversions.py: CONCENTRATION_TO_MGKG
CONCENTRATION_TO_MGKG ==
  <<"m", "g", "/", "k", "g">> :> Literal(1, 1)
  @@ <<"m", "g", "/", "k", "g", " ", "t", "s">> :> Literal(1, 1)
  @@ <<"m", "g", "/", "k", "g", " ", "d", "w">> :> Literal(1, 1)
  @@ <<"m", "g", "/", "k", "g", " ", "t", "o/", "r", "r", "s", "t", "o", "f", "f">> :> Literal(1, 1)
  @@ <<"micro", "g", "/", "k", "g">> :> Literal(1, 1000)
  @@ <<"u", "g", "/", "k", "g">> :> Literal(1, 1000)
  @@ <<"mu", "g", "/", "k", "g">> :> Literal(1, 1000)
  @@ <<"micro", "g", "/", "k", "g", " ", "t", "s">> :> Literal(1, 1000)
  @@ <<"n", "g", "/", "k", "g">> :> Literal(1, 1000000)
  @@ <<"g", "/", "k", "g">> :> Literal(1000, 1)
  @@ <<"p", "p", "m">> :> Literal(1, 1)
  @@ <<"p", "p", "b">> :> Literal(1, 1000)
  @@ <<"%">> :> Literal(10000, 1)

\* lib/conversions.py: CONCENTRATION_TO_MGL
CONCENTRATION_TO_MGL ==
  <<"m", "g", "/", "l">> :> Literal(1, 1)
  @@ <<"m", "g", "/", "l", " ", "t", "s">> :> Literal(1, 1)
  @@ <<"m", "g", "/", "l", " ", "d", "w">> :> Literal(1, 1)
  @@ <<"m", "g", "/", "l", " ", "t", "o/", "r", "r", "s", "t", "o", "f", "f">> :> Literal(1, 1)
  @@ <<"micro", "g", "/", "l">> :> Literal(1, 1000)
  @@ <<"u", "g", "/", "l">> :> Literal(1, 1000)
  @@ <<"mu", "g", "/", "l">> :> Literal(1, 1000)
  @@ <<"micro", "g", "/", "l", " ", "t", "s">> :> Literal(1, 1000)
  @@ <<"n", "g", "/", "l">> :> Literal(1, 1000000)
  @@ <<"g", "/", "l">> :> Literal(1000, 1)
  @@ <<"p", "p", "m">> :> Literal(1, 1)
  @@ <<"p", "p", "b">> :> Literal(1, 1000)
  @@ <<"%">> :> Literal(10000, 1)

\* lib/chemistry.py: UNIT_CONVERSIONS
UNIT_CONVERSIONS ==
  <<"m", "g", "/", "k", "g">> :> Literal(1, 1)
  @@ <<"m", "g", "/", "k", "g", " ", "t", "s">> :> Literal(1, 1)
  @@ <<"m", "g", "/", "k", "g", " ", "d", "w">> :> Literal(1, 1)
  @@ <<"m", "g", "/", "k", "g", " ", "t", "o/", "r", "r", "s", "t", "o", "f", "f">> :> Literal(1, 1)
  @@ <<"micro", "g", "/", "k", "g">> :> Literal(1, 1000)
  @@ <<"u", "g", "/", "k", "g">> :> Literal(1, 1000)
  @@ <<"mu", "g", "/", "k", "g">> :> Literal(1, 1000)
  @@ <<"micro", "g", "/", "k", "g", " ", "t", "s">> :> Literal(1, 1000)
  @@ <<"n", "g", "/", "k", "g">> :> Literal(1, 1000000)
  @@ <<"g", "/", "k", "g">> :> Literal(1000, 1)
  @@ <<"p", "p", "m">> :> Literal(1, 1)
  @@ <<"p", "p", "b">> :> Literal(1, 1000)
  @@ <<"%">> :> Literal(10000, 1)
  @@ <<"m", "g", "/", "l">> :> Literal(1, 1)
  @@ <<"micro", "g", "/", "l">> :> Literal(1, 1000)

\* dict.get(key, default)
get(dict, key, default) == IF key \in DOMAIN dict THEN dict[key] ELSE default

\* lib/conversions.py: convert_units with the lookup of the factors left
\* case-sensitive
convert_units_case_sensitive(v, from_unit, to_unit) ==
  IF v = None THEN None
  ELSE fdiv(fmul(v, literal_value(get(CONCENTRATION_TO_MGKG, strip(from_unit), Literal(1, 1)))),
            literal_value(get(CONCENTRATION_TO_MGKG, strip(to_unit), Literal(1, 1))))

\* lib/conversions.py: convert_units(value, from_unit, to_unit)
convert_units(v, from_unit, to_unit) ==
  IF v = None THEN None
  ELSE
    LET from_unit_lower == strip(lower(from_unit))
        to_unit_lower == strip(lower(to_unit))
        from_factor == literal_value(get(CONCENTRATION_TO_MGKG, from_unit_lower, Literal(1, 1)))
        to_factor == literal_value(get(CONCENTRATION_TO_MGKG, to_unit_lower, Literal(1, 1)))
    IN  fdiv(fmul(v, from_factor), to_factor)

\* lib/chemistry.py: convert_units(value, from_unit, to_unit)
chemistry_convert_units(v, from_unit, to_unit) ==
  IF v = None THEN None
  ELSE
    LET from_unit_lower == strip(lower(from_unit))
        to_unit_lower == strip(lower(to_unit))
        from_factor == literal_value(get(UNIT_CONVERSIONS, from_unit_lower, Literal(1, 1)))
        to_factor == literal_value(get(UNIT_CONVERSIONS, to_unit_lower, Literal(1, 1)))
    IN  fdiv(fmul(v, from_factor), to_factor)

\* lib/schema.py: the sets of units the module defines, by their names
schema ==
  [UNIT_TYPES |-> { <<"m", "g", "/", "k", "g">>, <<"micro", "g", "/", "k", "g">>, <<"%">>, <<"m", "g", "/", "l">>, <<"m", "S", "/", "m">> }]

\* the result of reading a name a module does not define
AttributeError == <<"AttributeError">>

\* analysis/01_merge_all_results.py: normalize_value(row), for a row with
\* the given value and unit
normalize_value(v, unit_label) ==
  LET unit == lower(strip(unit_label))
      lowered(units) == {lower(u) : u \in units}
  IN  IF "UNIT_TYPES_SOLID" \notin DOMAIN schema THEN AttributeError
      ELSE IF unit \in lowered(schema["UNIT_TYPES_SOLID"])
      THEN convert_units(v, unit_label, <<"m", "g", "/", "k", "g">>)
      ELSE IF "UNIT_TYPES_LIQUID" \notin DOMAIN schema THEN AttributeError
      ELSE IF unit \in lowered(schema["UNIT_TYPES_LIQUID"])
      THEN convert_units(v, unit_label, <<"m", "g", "/", "l">>)
      ELSE v

----------------------------------------------------------------------------
(* Result tables from lists of dicts.  A dict is the sequence of its        *)
(* <<key, value>> items in insertion order; texts in cells are sequences of *)
(* characters, so that the empty text and None are both << >>.              *)
has_key(row, key) == \E k \in DOMAIN row : row[k][1] = key

item(row, key) == row[CHOOSE k \in DOMAIN row : row[k][1] = key][2]

\* the keys of the dicts of a list, in order and with repetitions
RECURSIVE all_keys(_)
all_keys(rows) ==
  IF Len(rows) = 0 THEN << >>
  ELSE [k \in DOMAIN Head(rows) |-> Head(rows)[k][1]] \o all_keys(Tail(rows))

\* pd.DataFrame(data) for a list of dicts: the columns are the keys in order
\* of first appearance, and the cell of a row without the key is missing
DataFrameOfDicts(rows) ==
  LET columns == Unique(all_keys(rows))
  IN  [raised |-> "",
       columns |-> columns,
       rows |-> [k \in DOMAIN rows |->
                   [c \in {columns[j] : j \in DOMAIN columns} |->
                      IF has_key(rows[k], c) THEN item(rows[k], c) ELSE None]]]

\* for col in cols: if col not in df.columns: df[col] = None
RECURSIVE ensure_columns(_, _)
ensure_columns(df, cols) ==
  IF Len(cols) = 0 THEN df
  ELSE IF \E j \in DOMAIN df.columns : df.columns[j] = Head(cols)
  THEN ensure_columns(df, Tail(cols))
  ELSE ensure_columns(
         [raised |-> "",
          columns |-> Append(df.columns, Head(cols)),
          rows |-> [k \in DOMAIN df.rows |->
                      [c \in DOMAIN df.rows[k] \cup {Head(cols)} |->
                         IF c = Head(cols) THEN None ELSE df.rows[k][c]]]],
         Tail(cols))

\* lib/schema.py: RESULTS_COLUMNS
RESULTS_COLUMNS ==
  <<"sample_id", "parameter", "parameter_raw", "value", "unit", "uncertainty",
    "below_limit", "loq", "analysis_type">>

\* lib/dataframes.py: create_results_df(data)
create_results_df(data) ==
  GetColumns(ensure_columns(DataFrameOfDicts(data), RESULTS_COLUMNS), RESULTS_COLUMNS)

\* lib/schema.py: ANALYSIS_TYPES
ANALYSIS_TYPES == { <<"t", "o", "t", "a", "l", "a", "n", "a", "l", "y", "s", "e">>, <<"r", "i", "s", "t", "e", "t", "e", "s", "t">>, <<"k", "o", "l", "o", "n", "n", "e", "t", "e", "s", "t">>, <<"k", "o", "r", "n", "f", "o", "r", "d", "e", "l", "i", "n", "g">> }

\* lib/schema.py: validate_value(value, valid_set, field_name) with
\* allow_empty left at True
validate_value(v, valid_set) ==
  IF v = None \/ v = << >> THEN v
  ELSE IF v \notin valid_set THEN ValueError
  ELSE v

\* lib/schema.py: validate_results(data): ValueError when it raises; its
\* result, the data, is used by no caller and is None here
validate_results(data) ==
  IF \E k \in DOMAIN data :
       \/ /\ has_key(data[k], "analysis_type")
          /\ item(data[k], "analysis_type") # << >>
          /\ validate_value(item(data[k], "analysis_type"), ANALYSIS_TYPES) = ValueError
       \/ /\ has_key(data[k], "unit")
          /\ item(data[k], "unit") # << >>
          /\ validate_value(item(data[k], "unit"), schema.UNIT_TYPES) = ValueError
  THEN ValueError
  ELSE None

\* lib/schema.py: create_results_df(data, validate)
schema_create_results_df(data, validate) ==
  IF validate /\ validate_results(data) = ValueError
  THEN [raised |-> "ValueError", columns |-> << >>, rows |-> << >>]
  ELSE GetColumns(ensure_columns(DataFrameOfDicts(data), RESULTS_COLUMNS), RESULTS_COLUMNS)

----------------------------------------------------------------------------
(* The chain normalize, parse, convert, classify, aggregate:                *)
(* lib/chemistry.py normalize_results_df on the rows of a sample, and       *)
(* lib/thresholds.py get_sample_tilstandsklasse on the codes and the        *)
(* converted values it gives.                                               *)

\* float(value_str): the double nearest to the decimal
double(d) ==
  IF d = Zero THEN FloatZero
  ELSE round(add(mul(big(d[1]), big(Frac)), big(d[2])), big(Frac))

\* a <= b for floats that are not negative
fle(a, b) ==
  IF a = FloatZero THEN TRUE
  ELSE IF b = FloatZero THEN FALSE
  ELSE a[2] < b[2] \/ (a[2] = b[2] /\ ~ less(b[1], a[1]))

\* the keys of TILSTANDSKLASSER of lib/thresholds.py, spelled out
Spelling ==
  "As" :> <<"A", "s">>
  @@ "Pb" :> <<"P", "b">>
  @@ "Cd" :> <<"C", "d">>
  @@ "Cu" :> <<"C", "u">>
  @@ "Cr_total" :> <<"C", "r", "_", "t", "o", "t", "a", "l">>
  @@ "Cr_VI" :> <<"C", "r", "_", "V", "I">>
  @@ "Hg" :> <<"H", "g">>
  @@ "Ni" :> <<"N", "i">>
  @@ "Zn" :> <<"Z", "n">>
  @@ "Cyanid_fri" :> <<"C", "y", "a", "n", "i", "d", "_", "f", "r", "i">>
  @@ "PCB7" :> <<"P", "C", "B", "7">>
  @@ "Lindan" :> <<"L", "i", "n", "d", "a", "n">>
  @@ "DDT" :> <<"D", "D", "T">>
  @@ "Monoklorbenzen" :> <<"M", "o", "n", "o", "k", "l", "o", "r", "b", "e", "n", "z", "e", "n">>
  @@ "Diklorbenzen_12" :> <<"D", "i", "k", "l", "o", "r", "b", "e", "n", "z", "e", "n", "_", "1", "2">>
  @@ "Diklorbenzen_14" :> <<"D", "i", "k", "l", "o", "r", "b", "e", "n", "z", "e", "n", "_", "1", "4">>
  @@ "Triklorbenzen_124" :> <<"T", "r", "i", "k", "l", "o", "r", "b", "e", "n", "z", "e", "n", "_", "1", "2", "4">>
  @@ "Triklorbenzen_123" :> <<"T", "r", "i", "k", "l", "o", "r", "b", "e", "n", "z", "e", "n", "_", "1", "2", "3">>
  @@ "Triklorbenzen_135" :> <<"T", "r", "i", "k", "l", "o", "r", "b", "e", "n", "z", "e", "n", "_", "1", "3", "5">>
  @@ "Tetraklorbenzen_1245" :> <<"T", "e", "t", "r", "a", "k", "l", "o", "r", "b", "e", "n", "z", "e", "n", "_", "1", "2", "4", "5">>
  @@ "Pentaklorbenzen" :> <<"P", "e", "n", "t", "a", "k", "l", "o", "r", "b", "e", "n", "z", "e", "n">>
  @@ "Heksaklorbenzen" :> <<"H", "e", "k", "s", "a", "k", "l", "o", "r", "b", "e", "n", "z", "e", "n">>
  @@ "Diklormetan" :> <<"D", "i", "k", "l", "o", "r", "m", "e", "t", "a", "n">>
  @@ "Triklormetan" :> <<"T", "r", "i", "k", "l", "o", "r", "m", "e", "t", "a", "n">>
  @@ "Trikloreten" :> <<"T", "r", "i", "k", "l", "o", "r", "e", "t", "e", "n">>
  @@ "Tetraklormetan" :> <<"T", "e", "t", "r", "a", "k", "l", "o", "r", "m", "e", "t", "a", "n">>
  @@ "Tetrakloreten" :> <<"T", "e", "t", "r", "a", "k", "l", "o", "r", "e", "t", "e", "n">>
  @@ "Dikloretan_12" :> <<"D", "i", "k", "l", "o", "r", "e", "t", "a", "n", "_", "1", "2">>
  @@ "Dibrometan_12" :> <<"D", "i", "b", "r", "o", "m", "e", "t", "a", "n", "_", "1", "2">>
  @@ "Trikloretan_111" :> <<"T", "r", "i", "k", "l", "o", "r", "e", "t", "a", "n", "_", "1", "1", "1">>
  @@ "Trikloretan_112" :> <<"T", "r", "i", "k", "l", "o", "r", "e", "t", "a", "n", "_", "1", "1", "2">>
  @@ "Fenol" :> <<"F", "e", "n", "o", "l">>
  @@ "Klorfenol_sum" :> <<"K", "l", "o", "r", "f", "e", "n", "o", "l", "_", "s", "u", "m">>
  @@ "Pentaklorfenol" :> <<"P", "e", "n", "t", "a", "k", "l", "o", "r", "f", "e", "n", "o", "l">>
  @@ "PAH16" :> <<"P", "A", "H", "1", "6">>
  @@ "Naftalen" :> <<"N", "a", "f", "t", "a", "l", "e", "n">>
  @@ "Fluoren" :> <<"F", "l", "u", "o", "r", "e", "n">>
  @@ "Fluoranten" :> <<"F", "l", "u", "o", "r", "a", "n", "t", "e", "n">>
  @@ "Pyren" :> <<"P", "y", "r", "e", "n">>
  @@ "BaP" :> <<"B", "a", "P">>
  @@ "Benzen" :> <<"B", "e", "n", "z", "e", "n">>
  @@ "Toluen" :> <<"T", "o", "l", "u", "e", "n">>
  @@ "Etylbenzen" :> <<"E", "t", "y", "l", "b", "e", "n", "z", "e", "n">>
  @@ "Xylen" :> <<"X", "y", "l", "e", "n">>
  @@ "C5_C6" :> <<"C", "5", "_", "C", "6">>
  @@ "C6_C8" :> <<"C", "6", "_", "C", "8">>
  @@ "C8_C10" :> <<"C", "8", "_", "C", "1", "0">>
  @@ "C10_C12" :> <<"C", "1", "0", "_", "C", "1", "2">>
  @@ "C12_C35" :> <<"C", "1", "2", "_", "C", "3", "5">>
  @@ "MTBE" :> <<"M", "T", "B", "E">>
  @@ "Tetraetylbly" :> <<"T", "e", "t", "r", "a", "e", "t", "y", "l", "b", "l", "y">>
  @@ "PBDE_99" :> <<"P", "B", "D", "E", "_", "9", "9">>
  @@ "PBDE_209" :> <<"P", "B", "D", "E", "_", "2", "0", "9">>
  @@ "PFOS" :> <<"P", "F", "O", "S">>
  @@ "DEHP" :> <<"D", "E", "H", "P">>
  @@ "Dioksiner" :> <<"D", "i", "o", "k", "s", "i", "n", "e", "r">>
  @@ "TBT" :> <<"T", "B", "T">>
  @@ "TPHT" :> <<"T", "P", "H", "T">>

\* lib/thresholds.py: get_tilstandsklasse(parameter, value) for a code that
\* is a text and a value that is a float
tilstandsklasse_of(p, x) ==
  IF ~ \E k \in DOMAIN TILSTANDSKLASSER : Spelling[k] = p THEN None
  ELSE LET thresholds ==
             TILSTANDSKLASSER[CHOOSE k \in DOMAIN TILSTANDSKLASSER : Spelling[k] = p]
       IN  IF fle(x, double(thresholds.TK1)) THEN Some(1)
           ELSE IF thresholds.TK2 = None THEN None
           ELSE IF fle(x, double(thresholds.TK2)) THEN Some(2)
           ELSE IF fle(x, double(thresholds.TK3)) THEN Some(3)
           ELSE IF fle(x, double(thresholds.TK4)) THEN Some(4)
           ELSE Some(5)

\* lib/chemistry.py: normalize_results_df, the new columns of a row whose
\* pair of parse_value is `pair`
normalized_row(row, pair) ==
  [parameter |-> row.parameter, value |-> row.value, unit |-> row.unit,
   parameter_std |-> normalize_parameter_name(row.parameter),
   value_numeric |-> IF pair[1] = None THEN None ELSE double(pair[1]),
   below_limit |-> pair[2],
   value_mg_kg |-> IF pair[1] = None THEN None
                   ELSE chemistry_convert_units(double(pair[1]), row.unit, <<"m", "g", "/", "k", "g">>)]

\* lib/chemistry.py: normalize_results_df(df) for a table with the columns
\* 'parameter', 'value' and 'unit', which the function finds by itself; the
\* table it returns is a copy with four more columns
normalize_results_df(df) ==
  << >> \o [k \in DOMAIN df |-> normalized_row(df[k], parse_value(df[k].value))]

\* the dict of the codes and the converted values of the rows that have a
\* value, which get_sample_tilstandsklasse is called with
RECURSIVE results_of(_)
results_of(df) ==
  IF Len(df) = 0 THEN << >>
  ELSE IF df[Len(df)].value_mg_kg = None THEN results_of(SubSeq(df, 1, Len(df) - 1))
  ELSE DictSet(results_of(SubSeq(df, 1, Len(df) - 1)),
               df[Len(df)].parameter_std, df[Len(df)].value_mg_kg)

\* get_sample_tilstandsklasse with its two locals kept from the call before
locals_kept(worst, limiting) == <<worst, limiting>>

\* lib/thresholds.py: get_sample_tilstandsklasse, lines 273-274: the locals
\* worst_class and limiting_params after the two assignments, whatever the
\* values of the call before were
locals_at_entry(worst, limiting) == <<1, << >> >>

\* lib/thresholds.py: get_sample_tilstandsklasse, lines 278-283: the locals
\* after an item of class t
after_item(worst, limiting, param, t) ==
  IF t # None
  THEN IF t[1] > worst THEN <<t[1], <<param>>>>
       ELSE IF t[1] = worst /\ t[1] > 1 THEN <<worst, Append(limiting, param)>>
       ELSE <<worst, limiting>>
  ELSE <<worst, limiting>>

----------------------------------------------------------------------------
(* run_extraction.py: the batch runner.  A script is the stem of its file   *)
(* name; ProjectScripts are stems of the projects directory in the order    *)
(* sorted() puts their paths.                                               *)
ProjectScripts ==
  << <<"p", "0", "1", "_", "e", "1", "8", "_", "e", "1", "0", "2">>, <<"p", "0", "2", "_", "e", "1", "0", "3">>, <<"p", "0", "2", "_", "e", "1", "8", "_", "e", "1", "0", "3">>, <<"p", "1", "8", "_", "h", "e", "s", "t", "n", "e", "s", "t", "u", "n", "n", "e", "l", "e", "n">> >>

\* sorted(PROJECTS_DIR.glob('p[0-9][0-9]_*.py')) for the directory with the
\* scripts of the set S
list_available_projects(S) ==
  SelectSeq(ProjectScripts, LAMBDA script : script \in S)

\* script.stem[1:3]
project_num_of(script) == SubSeq(script, 2, 3)

\* list(PROJECTS_DIR.glob(f'p{project_num}_*.py')): the scripts whose name
\* matches, in the order the directory lists them
glob(dir, project_num) ==
  SelectSeq(dir, LAMBDA script : startswith(script, <<"p">> \o project_num \o <<"_">>))

\* run_project(project_num) for the number of `script`: scripts[0], the
\* script it loads
script_loaded(dir, script) == glob(dir, project_num_of(script))[1]

\* the scripts of a directory
scripts_of(dir) == {dir[k] : k \in DOMAIN dir}

----------------------------------------------------------------------------
Init ==
  /\ pc = "idle"
  /\ parameter = None
  /\ value = None
  /\ tk = None
  /\ results = << >>
  /\ order = << >>
  /\ idx = 0
  /\ worst_class = 1
  /\ limiting_params = << >>
  /\ out = [routine |-> "none"]
  /\ normalizer = ""
  /\ raw_label = << >>
  /\ code = << >>
  /\ how = ""
  /\ raw_label2 = << >>
  /\ code2 = << >>
  /\ parser = ""
  /\ raw_value = << >>
  /\ parsed = << >>
  /\ converter = ""
  /\ amount = None
  /\ from_label = << >>
  /\ to_label = << >>
  /\ converted = None
  /\ back = None
  /\ creator = ""
  /\ input_rows = << >>
  /\ validating = FALSE
  /\ frame = << >>
  /\ sample_rows = << >>
  /\ run = 0
  /\ normalized = << >>
  /\ records = << >>
  /\ listing = << >>
  /\ behaviour = << >>
  /\ todo = << >>
  /\ attempts = << >>

\* a call get_tilstandsklasse(p, v) on its own
Classify ==
  /\ pc = "idle"
  /\ \E p \in Parameters : \E v \in Values(p) :
       /\ parameter' = Some(p)
       /\ value' = v
       /\ tk' = get_tilstandsklasse(p, v)
       /\ out' = [routine |-> "get_tilstandsklasse"]
  /\ pc' = "classified"
  /\ UNCHANGED <<results, order, idx, worst_class, limiting_params>>
  /\ UNCHANGED rest_of_tk

\* get_sample_tilstandsklasse(results): entry, lines 273-274
StartSample ==
  /\ pc = "idle"
  /\ \E D \in SUBSET SampleParameters :
       /\ Cardinality(D) <= MaxParams
       /\ \E r \in [D -> UNION {SampleValues(p) : p \in D}] :
            /\ ValidSample(r)
            /\ results' = r
            /\ order' \in Orders(D)
  /\ pc' = "loop"
  /\ idx' = 0
  /\ worst_class' = 1
  /\ limiting_params' = << >>
  /\ parameter' = None
  /\ value' = None
  /\ tk' = None
  /\ out' = [routine |-> "none"]
  /\ UNCHANGED rest_of_tk

\* the loop body with ties dropped: an item of the same class as the worst
\* one so far is not added to the limiting parameters
loop_body_no_ties(worst, limiting, param, val) ==
  LET t == get_tilstandsklasse(param, val)
  IN  IF t # None /\ t[1] > worst THEN <<t[1], <<param>>>> ELSE <<worst, limiting>>

\* get_sample_tilstandsklasse: the body of the loop, lines 277-283; the new
\* <<worst_class, limiting_params>> after the item (param, val)
loop_body(worst, limiting, param, val) ==
  LET t == get_tilstandsklasse(param, val)
  IN  IF t # None
      THEN IF t[1] > worst THEN <<t[1], <<param>>>>
           ELSE IF t[1] = worst /\ t[1] > 1 THEN <<worst, Append(limiting, param)>>
           ELSE <<worst, limiting>>
      ELSE <<worst, limiting>>

\* get_sample_tilstandsklasse: one iteration of the loop, lines 276-283
AggregateStep ==
  /\ pc = "loop"
  /\ idx < Len(order)
  /\ LET param == order[idx + 1]
         val == results[param]
         new == loop_body(worst_class, limiting_params, param, val)
     IN  /\ parameter' = Some(param)
         /\ value' = val
         /\ tk' = get_tilstandsklasse(param, val)
         /\ worst_class' = new[1]
         /\ limiting_params' = new[2]
  /\ idx' = idx + 1
  /\ UNCHANGED <<pc, results, order, out>>
  /\ UNCHANGED rest_of_tk

\* get_sample_tilstandsklasse: return, line 285
AggregateReturn ==
  /\ pc = "loop"
  /\ idx = Len(order)
  /\ pc' = "returned"
  /\ out' = [routine |-> "get_sample_tilstandsklasse",
             ret |-> <<worst_class, limiting_params>>]
  /\ UNCHANGED <<parameter, value, tk, results, order, idx, worst_class,
                 limiting_params>>
  /\ UNCHANGED rest_of_tk

\* a call dataframes.create_classifications_df(samples_df, results_df)
CreateClassificationsDf ==
  /\ pc = "returned"
  /\ \E s \in SamplesDfs : \E with_tk \in BOOLEAN :
       out' = [routine |-> "dataframes.create_classifications_df",
               samples_df |-> s,
               results_df |-> results_df_of(results, order, with_tk),
               ret |-> create_classifications_df(
                         s, results_df_of(results, order, with_tk), "TA-2553/2009")]
  /\ pc' = "done"
  /\ UNCHANGED <<parameter, value, tk, results, order, idx, worst_class,
                 limiting_params>>
  /\ UNCHANGED rest_of_tk

\* a call dataframes.create_decisions_df(samples_df, results_df)
CreateDecisionsDf ==
  /\ pc = "returned"
  /\ \E s \in SamplesDfs : \E with_tk \in BOOLEAN :
       out' = [routine |-> "dataframes.create_decisions_df",
               samples_df |-> s,
               results_df |-> results_df_of(results, order, with_tk),
               ret |-> create_decisions_df(s, results_df_of(results, order, with_tk))]
  /\ pc' = "done"
  /\ UNCHANGED <<parameter, value, tk, results, order, idx, worst_class,
                 limiting_params>>
  /\ UNCHANGED rest_of_tk

\* a call schema.create_decisions_df(samples_df, results_df)
SchemaCreateDecisionsDf ==
  /\ pc = "returned"
  /\ \E s \in SamplesDfs : \E with_tk \in BOOLEAN :
       out' = [routine |-> "schema.create_decisions_df",
               samples_df |-> s,
               results_df |-> results_df_of(results, order, with_tk),
               ret |-> schema_create_decisions_df(
                         s, results_df_of(results, order, with_tk))]
  /\ pc' = "done"
  /\ UNCHANGED <<parameter, value, tk, results, order, idx, worst_class,
                 limiting_params>>
  /\ UNCHANGED rest_of_tk

\* a call chemistry.classify_sample_results(sample_id, results)
ClassifySampleResults ==
  /\ pc = "returned"
  /\ out' = [routine |-> "chemistry.classify_sample_results",
             ret |-> classify_sample_results(
                       SampleId, results_df_of(results, order, FALSE))]
  /\ pc' = "done"
  /\ UNCHANGED <<parameter, value, tk, results, order, idx, worst_class,
                 limiting_params>>
  /\ UNCHANGED rest_of_tk

Next ==
  \/ Classify
  \/ StartSample
  \/ AggregateStep
  \/ AggregateReturn
  \/ CreateClassificationsDf
  \/ CreateDecisionsDf
  \/ SchemaCreateDecisionsDf
  \/ ClassifySampleResults

Spec == Init /\ [][Next]_vars

\* the codes the three tables of lib/chemistry.py map labels to
CanonicalCodes ==
  {EUROFINS_ALI_COLUMN_MAP[k] : k \in DOMAIN EUROFINS_ALI_COLUMN_MAP}
    \cup {ALS_EXCEL_COLUMN_MAP[k] : k \in DOMAIN ALS_EXCEL_COLUMN_MAP}
    \cup {PARAMETER_ALIASES[k] : k \in DOMAIN PARAMETER_ALIASES}

\* the labels the normalizer is called with: the keys of the three tables,
\* labels that are already codes (analysis/02_boxplot_parameter_groups.py applies
\* normalize_parameter_name to the parameter column of the results table),
\* the non-parameter columns of the p18 sheets and a header pandas makes up
Labels ==
  DOMAIN EUROFINS_ALI_COLUMN_MAP \cup DOMAIN ALS_EXCEL_COLUMN_MAP
    \cup DOMAIN PARAMETER_ALIASES \cup CanonicalCodes \cup SKIP_COLUMNS
    \cup { <<"U", "n", "n", "a", "m", "e", "d", ":", " ", "0">> }

\* whitespace put before and after a label
Pads == { << >>, <<" ">>, <<"\t", " ">> }

\* the labels that differ from L in letter case only
CaseVariants(L) ==
  ({M \in Labels : lower(M) = lower(L)} \cup {lower(L), upper(L), capitalize(L)}) \ {L}

\* the analysis markers laboratories put at the end of a label
Markers == {"^", "*"}

\* a call normalize_parameter_name(raw_label)
NormalizeParameterName ==
  /\ pc = "idle"
  /\ \E L \in Labels :
       /\ raw_label' = L
       /\ code' = normalize_parameter_name(L)
  /\ normalizer' = "normalize_parameter_name"
  /\ pc' = "normalized"
  /\ UNCHANGED <<how, raw_label2, code2>>
  /\ UNCHANGED rest_of_norm

\* a call get_parameter_code(column_name)
GetParameterCode ==
  /\ pc = "idle"
  /\ \E L \in Labels :
       /\ raw_label' = L
       /\ code' = get_parameter_code(L)
  /\ normalizer' = "get_parameter_code"
  /\ pc' = "normalized"
  /\ UNCHANGED <<how, raw_label2, code2>>
  /\ UNCHANGED rest_of_norm

\* a second call of the same function with the label padded with whitespace
CallPadded ==
  /\ pc = "normalized"
  /\ \E l \in Pads : \E r \in Pads :
       /\ l \o r # << >>
       /\ raw_label2' = l \o raw_label \o r
       /\ code2' = Lookup(normalizer, l \o raw_label \o r)[1]
  /\ how' = "padded"
  /\ pc' = "renormalized"
  /\ UNCHANGED <<normalizer, raw_label, code>>
  /\ UNCHANGED rest_of_norm

\* a second call of the same function with the label in another letter case
CallCaseVariant ==
  /\ pc = "normalized"
  /\ \E M \in CaseVariants(raw_label) :
       /\ raw_label2' = M
       /\ code2' = Lookup(normalizer, M)[1]
  /\ how' = "case"
  /\ pc' = "renormalized"
  /\ UNCHANGED <<normalizer, raw_label, code>>
  /\ UNCHANGED rest_of_norm

\* a second call of the same function with a marker at the end of the label
CallMarked ==
  /\ pc = "normalized"
  /\ \E m \in Markers :
       /\ raw_label2' = Append(raw_label, m)
       /\ code2' = Lookup(normalizer, Append(raw_label, m))[1]
  /\ how' = "marker"
  /\ pc' = "renormalized"
  /\ UNCHANGED <<normalizer, raw_label, code>>
  /\ UNCHANGED rest_of_norm

\* projects/p18_hestnestunnelen.py: read_sheet, the column filter of lines
\* 349-357 for one column excel_col of a sheet
ReadSheetColumn ==
  /\ pc = "idle"
  /\ \E excel_col \in Labels :
       /\ raw_label' = excel_col
       /\ code' = get_parameter_code(excel_col)
       /\ how' = IF read_sheet_skips(excel_col) THEN "skipped" ELSE "kept"
  /\ normalizer' = "read_sheet"
  /\ pc' = "done"
  /\ UNCHANGED <<raw_label2, code2>>
  /\ UNCHANGED rest_of_norm

NextNormalizer ==
  \/ NormalizeParameterName
  \/ GetParameterCode
  \/ CallPadded
  \/ CallCaseVariant
  \/ CallMarked
  \/ ReadSheetColumn

SpecNormalizer == Init /\ [][NextNormalizer]_vars

----------------------------------------------------------------------------
\* the raw values the parsers are called with: a number, a token or a text,
\* after nothing or a below-limit marker, with or without a space around it
ValueBodies ==
  { <<"0", ".", "5">>, <<"0", ",", "2", "0">>, <<"5", "1", ".", "9">>, <<"1", "2">>, <<"1", " ", "0", "0", "0">>, <<"1", ".", "2", ".", "3">>, <<"1", "2", " ", "m", "g", "/", "k", "g">>,
    <<"0", ".", "5", "m", "g", "/", "k", "g">>, <<"5", "1", ".", "9", " ", "+", "/", "-", " ", "1", "0", ".", "4">>, << >>, <<"a", "b", "c">>, <<"n", "d">>, <<"N", "D">>, <<"n", ".", "d", ".">>,
    <<"N", ".", "D", ".">>, <<"n", ".", "d">>, <<"-">>, <<"i", ".", "p", ".">>, <<"i", "k", "k", "e", " ", "p", "ao", "v", "i", "s", "t">>, <<"I", "k", "k", "e", " ", "P", "ao", "v", "i", "s", "t">>,
    <<"n", "o", "t", " ", "d", "e", "t", "e", "c", "t", "e", "d">>, <<"U", "t", "g", "ao", "r">> }

ValueMarkers == { << >>, <<"<">>, <<"<", " ">>, <<"&", "l", "t", ";">>, <<"&", "l", "t", ";", " ">> }

RawValues ==
  {l \o m \o b \o r : l \in { << >>, <<" ">> }, m \in ValueMarkers,
                      b \in ValueBodies, r \in { << >>, <<" ">> }}

\* lib/parsers/als_pdf.py: _parse_sample_section, value_pattern (line 182):
\* the texts group 1, ([<n][\d.,n\.d]+|[\d.,]+) under re.IGNORECASE, matches
AlsValueTexts ==
  LET numeric == DOMAIN Digit \cup {".", ","}
  IN  {s \in RawValues :
         /\ Len(s) > 0
         /\ \/ \A k \in DOMAIN s : s[k] \in numeric
            \/ /\ Len(s) > 1
               /\ s[1] \in {"<", "n", "N"}
               /\ \A k \in 2..Len(s) : s[k] \in numeric \cup {"n", "d", "N", "D"}}

\* a call chemistry.parse_value(value)
ChemistryParseValue ==
  /\ pc = "idle"
  /\ \E v \in RawValues :
       /\ raw_value' = v
       /\ parsed' = parse_value(v)
  /\ parser' = "chemistry.parse_value"
  /\ pc' = "parsed"
  /\ UNCHANGED rest_of_parse

\* a call parse_value(val) of projects/p01_e18_e102.py
P01ParseValue ==
  /\ pc = "idle"
  /\ \E v \in RawValues :
       /\ raw_value' = v
       /\ parsed' = p01_parse_value(v)
  /\ parser' = "p01.parse_value"
  /\ pc' = "parsed"
  /\ UNCHANGED rest_of_parse

\* a call parse_value(val) of projects/p18_hestnestunnelen.py
P18ParseValue ==
  /\ pc = "idle"
  /\ \E v \in RawValues :
       /\ raw_value' = v
       /\ parsed' = p18_parse_value(v)
  /\ parser' = "p18.parse_value"
  /\ pc' = "parsed"
  /\ UNCHANGED rest_of_parse

\* lib/parsers/als_pdf.py: _parse_sample_section, lines 192-205: a matched
\* value text and uncertainty text are handed to _build_als_result
BuildAlsResult ==
  /\ pc = "idle"
  /\ \E v \in AlsValueTexts : \E u \in { None, <<"1", "0", ".", "4">>, <<"1", "0", ",", "4">> } :
       /\ raw_value' = v
       /\ parsed' = _build_als_result(SampleId, <<"A", "s">>, <<"A", "s", " ", "(", "A", "r", "s", "e", "n", ")">>,
                                      strip(replace(v, ",", <<".">>)),
                                      "mg/kg", u, "totalanalyse")
  /\ parser' = "_build_als_result"
  /\ pc' = "parsed"
  /\ UNCHANGED rest_of_parse

\* a call chemistry.format_result_for_csv(sample_id, parameter_raw, value_raw,
\* unit, loq)
FormatResultForCsv ==
  /\ pc = "idle"
  /\ \E v \in RawValues : \E p \in { <<"A", "r", "s", "e", "n", " ", "(", "A", "s", ")">>, <<"k", "r", "o", "m", " ", "(", "v", "i", ")">> } :
     \E loq \in { None, Dec(0, 50000) } :
       /\ raw_value' = v
       /\ parsed' = Some(format_result_for_csv(SampleId, p, v, "mg/kg", loq))
  /\ parser' = "format_result_for_csv"
  /\ pc' = "parsed"
  /\ UNCHANGED rest_of_parse

NextParser ==
  \/ ChemistryParseValue
  \/ P01ParseValue
  \/ P18ParseValue
  \/ BuildAlsResult
  \/ FormatResultForCsv

SpecParser == Init /\ [][NextParser]_vars

----------------------------------------------------------------------------
\* the values, besides None, and the unit labels the converters are called
\* with: units of
\* the solid and of the liquid table, labels in other case and with
\* whitespace around them, and a unit of no table
Amounts == { Literal(519, 10), Literal(1000, 1), Literal(7, 10) }

value_of(v) == IF v = None THEN None ELSE literal_value(v)

UnitLabels ==
  { <<"m", "g", "/", "k", "g">>, <<"micro", "g", "/", "k", "g">>, <<"n", "g", "/", "k", "g">>, <<"g", "/", "k", "g">>, <<"%">>, <<"p", "p", "b">>,
    <<"m", "g", "/", "k", "g", " ", "t", "o/", "r", "r", "s", "t", "o", "f", "f">>, <<" ", "M", "G", "/", "K", "G", " ">>, <<"U", "g", "/", "K", "g">>,
    <<"m", "g", "/", "l">>, <<"micro", "g", "/", "l">>, <<"n", "g", "/", "l">>, <<"g", "/", "l">>, <<"m", "S", "/", "m">> }

\* a call conversions.convert_units(value, from_label, to_label)
ConvertUnits ==
  /\ pc = "idle"
  /\ \E v \in Amounts \cup {None} : \E a \in UnitLabels : \E b \in UnitLabels :
       /\ amount' = value_of(v)
       /\ from_label' = a
       /\ to_label' = b
       /\ converted' = convert_units(value_of(v), a, b)
  /\ converter' = "conversions.convert_units"
  /\ pc' = "converted"
  /\ UNCHANGED back
  /\ UNCHANGED rest_of_unit

\* a call chemistry.convert_units(value, from_label, to_label)
ChemistryConvertUnits ==
  /\ pc = "idle"
  /\ \E v \in Amounts \cup {None} : \E a \in UnitLabels : \E b \in UnitLabels :
       /\ amount' = value_of(v)
       /\ from_label' = a
       /\ to_label' = b
       /\ converted' = chemistry_convert_units(value_of(v), a, b)
  /\ converter' = "chemistry.convert_units"
  /\ pc' = "converted"
  /\ UNCHANGED back
  /\ UNCHANGED rest_of_unit

\* the converted value is converted back by the same function
ConvertBack ==
  /\ pc = "converted"
  /\ back' = IF converter = "conversions.convert_units"
             THEN convert_units(converted, to_label, from_label)
             ELSE chemistry_convert_units(converted, to_label, from_label)
  /\ pc' = "converted back"
  /\ UNCHANGED <<converter, amount, from_label, to_label, converted>>
  /\ UNCHANGED rest_of_unit

\* analysis/01_merge_all_results.py: normalize_value(row) for one row of the
\* merged table
NormalizeValue ==
  /\ pc = "idle"
  /\ \E v \in Amounts \cup {None} : \E a \in UnitLabels :
       /\ amount' = value_of(v)
       /\ from_label' = a
       /\ converted' = normalize_value(value_of(v), a)
  /\ converter' = "normalize_value"
  /\ pc' = "value normalized"
  /\ UNCHANGED <<to_label, back>>
  /\ UNCHANGED rest_of_unit

NextUnits ==
  \/ ConvertUnits
  \/ ChemistryConvertUnits
  \/ ConvertBack
  \/ NormalizeValue

SpecUnits == Init /\ [][NextUnits]_vars
----------------------------------------------------------------------------
\* the dicts of the lists create_results_df is called with: a row with every
\* column, rows without some of them, with a column that is not of the
\* schema, with the keys in another order, with a unit and an analysis type
\* the schema does not list, and with an empty unit
ResultRows ==
  { << <<"sample_id", <<"S", "1">>>>, <<"parameter", <<"A", "s">>>>, <<"parameter_raw", <<"A", "r", "s", "e", "n">>>>,
       <<"value", Dec(12, 0)>>, <<"unit", <<"m", "g", "/", "k", "g">>>>, <<"uncertainty", None>>,
       <<"below_limit", FALSE>>, <<"loq", None>>, <<"analysis_type", <<"t", "o", "t", "a", "l", "a", "n", "a", "l", "y", "s", "e">>>> >>,
    << <<"sample_id", <<"S", "1">>>>, <<"parameter", <<"P", "b">>>>, <<"value", Dec(3, 0)>> >>,
    << <<"sample_id", <<"S", "2">>>>, <<"parameter", <<"A", "s">>>>, <<"value", Dec(60, 0)>>,
       <<"unit", <<"m", "g", "/", "k", "g">>>>, <<"tilstandsklasse", 3>> >>,
    << <<"unit", <<"%">>>>, <<"value", Dec(85, 0)>>, <<"parameter", <<"T", "S">>>>,
       <<"sample_id", <<"S", "2">>>> >>,
    << <<"sample_id", <<"S", "3">>>>, <<"parameter", <<"A", "s">>>>, <<"value", Dec(12, 0)>>,
       <<"unit", <<"m", "g", "/", "k", "g", " ", "T", "S">>>> >>,
    << <<"sample_id", <<"S", "3">>>>, <<"analysis_type", <<"s", "c", "r", "e", "e", "n", "i", "n", "g">>>> >>,
    << <<"sample_id", <<"S", "4">>>>, <<"unit", << >>>> >> }

MaxRows == 2

ResultLists == UNION {[1..n -> ResultRows] : n \in 0..MaxRows}

\* a call dataframes.create_results_df(data)
CreateResultsDf ==
  /\ pc = "idle"
  /\ \E d \in ResultLists :
       /\ input_rows' = d
       /\ frame' = create_results_df(d)
  /\ creator' = "dataframes.create_results_df"
  /\ validating' = FALSE
  /\ pc' = "frame created"
  /\ UNCHANGED rest_of_frame

\* a call schema.create_results_df(data, validate)
SchemaCreateResultsDf ==
  /\ pc = "idle"
  /\ \E d \in ResultLists : \E v \in BOOLEAN :
       /\ input_rows' = d
       /\ validating' = v
       /\ frame' = schema_create_results_df(d, v)
  /\ creator' = "schema.create_results_df"
  /\ pc' = "frame created"
  /\ UNCHANGED rest_of_frame

NextFrames ==
  \/ CreateResultsDf
  \/ SchemaCreateResultsDf

SpecFrames == Init /\ [][NextFrames]_vars
----------------------------------------------------------------------------
\* the rows of a sample as a laboratory reports them: label, value and unit
InputRows ==
  { [parameter |-> <<"A", "r", "s", "e", "n">>, value |-> <<"5", "1", ",", "9">>, unit |-> <<"m", "g", "/", "k", "g">>],
    [parameter |-> <<" ", "a", "r", "s", "e", "n", " ">>, value |-> <<"<", "0", ".", "5">>, unit |-> <<"m", "g", "/", "k", "g", " ", "T", "S">>],
    [parameter |-> <<"B", "l", "y">>, value |-> <<"1", "2", "0", "0", "0", "0">>, unit |-> <<"micro", "g", "/", "k", "g">>],
    [parameter |-> <<"K", "o", "b", "b", "e", "r">>, value |-> <<"0", ".", "0", "5", "1", "9">>, unit |-> <<"g", "/", "k", "g">>],
    [parameter |-> <<"K", "v", "i", "k", "k", "s", "o/", "l", "v">>, value |-> <<"n", ".", "d", ".">>, unit |-> <<"m", "g", "/", "k", "g">>],
    [parameter |-> <<"T", "o", "l", "u", "e", "n">>, value |-> <<"0", ",", "7", " ", "m", "g", "/", "k", "g">>, unit |-> <<"m", "g", "/", "k", "g">>],
    [parameter |-> <<"B", "l", "y">>, value |-> <<"i", "k", "k", "e", " ", "a", "n", "a", "l", "y", "s", "e", "r", "t">>, unit |-> <<"m", "g", "/", "k", "g">>] }

InputTables == UNION {[1..n -> InputRows] : n \in 1..MaxRows}

\* the rows of a sample arrive
ReadRows ==
  /\ pc = "idle"
  /\ sample_rows' \in InputTables
  /\ run' = 1
  /\ pc' = "rows read"
  /\ UNCHANGED <<normalized, records>>
  /\ UNCHANGED rest_of_pipe

\* a call normalize_results_df(sample_rows)
NormalizeResultsDf ==
  /\ pc = "rows read"
  /\ normalized' = normalize_results_df(sample_rows)
  /\ pc' = "normalized"
  /\ UNCHANGED <<sample_rows, run, records>>
  /\ UNCHANGED rest_of_pipe

\* get_sample_tilstandsklasse(results) is called with the codes and the
\* values of the table: lines 273-274
EnterSampleTilstandsklasse ==
  /\ pc = "normalized"
  /\ results' = results_of(normalized)
  /\ idx' = 0
  /\ worst_class' = locals_at_entry(worst_class, limiting_params)[1]
  /\ limiting_params' = locals_at_entry(worst_class, limiting_params)[2]
  /\ pc' = "classifying"
  /\ UNCHANGED <<parameter, value, tk, order, out>>
  /\ UNCHANGED <<sample_rows, run, normalized, records>>
  /\ UNCHANGED <<norm_vars, parse_vars, unit_vars, frame_vars, runner_vars>>

\* get_sample_tilstandsklasse: one iteration of the loop, lines 276-283
ClassifyItem ==
  /\ pc = "classifying"
  /\ idx < Len(results)
  /\ LET param == results[idx + 1][1]
         val == results[idx + 1][2]
         new == after_item(worst_class, limiting_params, param,
                           tilstandsklasse_of(param, val))
     IN  /\ parameter' = param
         /\ value' = val
         /\ tk' = tilstandsklasse_of(param, val)
         /\ worst_class' = new[1]
         /\ limiting_params' = new[2]
  /\ idx' = idx + 1
  /\ UNCHANGED <<pc, results, order, out>>
  /\ UNCHANGED <<sample_rows, run, normalized, records>>
  /\ UNCHANGED <<norm_vars, parse_vars, unit_vars, frame_vars, runner_vars>>

\* get_sample_tilstandsklasse: return, line 285; the record of the run is
\* the normalized table with the class of the sample and what limits it
ReturnRecord ==
  /\ pc = "classifying"
  /\ idx = Len(results)
  /\ records' = Append(records, [table |-> normalized,
                                 tilstandsklasse |-> worst_class,
                                 limiting_parameters |-> limiting_params])
  /\ pc' = "run finished"
  /\ UNCHANGED <<sample_rows, run, normalized>>
  /\ UNCHANGED rest_of_pipe

\* the same rows are processed once more
RunAgain ==
  /\ pc = "run finished"
  /\ run = 1
  /\ run' = 2
  /\ pc' = "rows read"
  /\ UNCHANGED <<sample_rows, normalized, records>>
  /\ UNCHANGED rest_of_pipe

NextPipeline ==
  \/ ReadRows
  \/ NormalizeResultsDf
  \/ EnterSampleTilstandsklasse
  \/ ClassifyItem
  \/ ReturnRecord
  \/ RunAgain

SpecPipeline == Init /\ [][NextPipeline]_vars
----------------------------------------------------------------------------
MaxScripts == 3

\* the directories: the scripts in the order the file system lists them
Directories ==
  UNION {Orders(S) : S \in {T \in SUBSET scripts_of(ProjectScripts) :
                              T # {} /\ Cardinality(T) <= MaxScripts}}

\* what happens when a script is loaded and run: run() returns, the module
\* has no run(), or loading or running it raises
Behaviours == {"runs", "no run()", "raises"}

\* run_all(): lines 54-55
RunAll ==
  /\ pc = "idle"
  /\ \E dir \in Directories :
       /\ listing' = dir
       /\ behaviour' \in [scripts_of(dir) -> Behaviours]
       /\ todo' = list_available_projects(scripts_of(dir))
  /\ attempts' = << >>
  /\ pc' = "batch"
  /\ UNCHANGED rest_of_runner

\* run_all(): an iteration of the loop, lines 57-60, with the call of
\* run_project; an error raised in it is caught nowhere and ends the batch
RunProject ==
  /\ pc = "batch"
  /\ todo # << >>
  /\ LET script == script_loaded(listing, Head(todo))
     IN  /\ attempts' = Append(attempts, <<script, behaviour[script]>>)
         /\ pc' = IF behaviour[script] = "raises" THEN "crashed" ELSE "batch"
  /\ todo' = Tail(todo)
  /\ UNCHANGED <<listing, behaviour>>
  /\ UNCHANGED rest_of_runner

\* run_all(): after the loop, lines 62-63
AllComplete ==
  /\ pc = "batch"
  /\ todo = << >>
  /\ pc' = "all complete"
  /\ UNCHANGED runner_vars
  /\ UNCHANGED rest_of_runner

NextRunner ==
  \/ RunAll
  \/ RunProject
  \/ AllComplete

\* the interpreter goes on with the batch as long as a statement is left
SpecRunner == Init /\ [][NextRunner]_vars /\ WF_vars(NextRunner)

----------------------------------------------------------------------------
(* Helpers of the properties *)
Range(s) == {s[k] : k \in DOMAIN s}

SetMax(S) == CHOOSE m \in S : \A x \in S : x <= m

SetMin(S) == CHOOSE m \in S : \A x \in S : m <= x

AllTiersDefined(p) ==
  /\ p \in DOMAIN TILSTANDSKLASSER
  /\ \A t \in Tiers : TILSTANDSKLASSER[p][t] # None

OnlyTK1Defined(p) ==
  /\ p \in DOMAIN TILSTANDSKLASSER
  /\ TILSTANDSKLASSER[p].TK1 # None
  /\ \A t \in Tiers \ {"TK1"} : TILSTANDSKLASSER[p][t] = None

\* a call of get_tilstandsklasse has returned (on its own or inside the loop)
Called == parameter # None

(* C1: for a parameter with all five boundaries defined, the classifier     *)
(* returns the smallest k in 1..4 with value <= boundary k, and 5 when the  *)
(* value exceeds boundary 4 (also above boundary 5).                        *)
C1_FirstBoundaryNotBelow ==
  (Called /\ AllTiersDefined(parameter[1])) =>
    LET th == TILSTANDSKLASSER[parameter[1]]
        B == <<th.TK1, th.TK2, th.TK3, th.TK4>>
        K == {k \in 1..4 : LE(value, B[k])}
    IN  /\ tk = IF K = {} THEN Some(5) ELSE Some(SetMin(K))
        /\ LE(value, th.TK1) => tk = Some(1)
        /\ GT(value, th.TK5) => tk = Some(5)

\* As = 8.00001 lies on the far side of TK1 = 8 and is class 2
C1_Witness ==
  /\ pc = "classified"
  /\ parameter = Some("As")
  /\ value = Up(Dec(8, 0))
  /\ tk = Some(2)

(* C2: for a parameter that defines only TK1, the classifier returns 1 when *)
(* value <= TK1 and None (undetermined), never a class, when value > TK1.   *)
C2_OnlyTK1 ==
  (Called /\ OnlyTK1Defined(parameter[1])) =>
    tk = IF LE(value, TILSTANDSKLASSER[parameter[1]].TK1) THEN Some(1) ELSE None

\* Toluen = 100 with TK1 = 0.3 is undetermined
C2_Witness ==
  /\ pc = "classified"
  /\ parameter = Some("Toluen")
  /\ value = Dec(100, 0)
  /\ tk = None

\* the items the loop has consumed, and the class of each
Seen == {order[k] : k \in 1..idx}

TierOf(p) == get_tilstandsklasse(p, results[p])

DefinedSeen == {p \in Seen : TierOf(p) # None}

(* C3: after the aggregator has processed any sequence of items, the        *)
(* overall class is the maximum of 1 and the defined classes seen; when it  *)
(* is above 1 the limiting parameters are exactly the parameters of that    *)
(* class; undetermined items are in no limiting set and, being left out of  *)
(* the maximum, never change the overall class.                             *)
C3_WorstClassAndLimiting ==
  (pc \in {"loop", "returned", "done"}) =>
    /\ worst_class = SetMax({1} \cup {TierOf(p)[1] : p \in DefinedSeen})
    /\ worst_class > 1 =>
         Range(limiting_params) = {p \in DefinedSeen : TierOf(p)[1] = worst_class}
    /\ \A p \in Seen : TierOf(p) = None => p \notin Range(limiting_params)
    /\ (pc = "returned" /\ out.routine = "get_sample_tilstandsklasse") =>
         out.ret = <<worst_class, limiting_params>>

\* As in class 4, Cu in class 3 and an undetermined Toluen: class 4, limited by As
C3_Witness ==
  /\ pc = "returned"
  /\ DOMAIN results = {"As", "Cu", "Toluen"}
  /\ TierOf("As") = Some(4)
  /\ TierOf("Cu") = Some(3)
  /\ TierOf("Toluen") = None
  /\ out.routine = "get_sample_tilstandsklasse"
  /\ out.ret = <<4, <<"As">> >>

\* the table routine of the last call was handed per-result classes and
\* returned a table
ReturnedTable(routine) ==
  /\ pc = "done"
  /\ out.routine = routine
  /\ \E j \in DOMAIN out.results_df.columns : out.results_df.columns[j] = "tilstandsklasse"

\* the overall class of a sample in the results table of the last call
OverallOf(sample_id) == ColumnMax(RowsOfSample(out.results_df, sample_id))

(* C4: whenever the overall class of a sample is 1, the limiting parameters *)
(* reported for it are empty, by get_sample_tilstandsklasse and by          *)
(* create_classifications_df.                                               *)
C4_Tier1HasNoLimiting ==
  /\ (pc = "returned" /\ out.routine = "get_sample_tilstandsklasse" /\ out.ret[1] = 1)
       => out.ret[2] = << >>
  /\ ReturnedTable("dataframes.create_classifications_df") =>
       \A k \in DOMAIN out.ret.rows :
         out.ret.rows[k].tilstandsklasse = Some(1)
           => out.ret.rows[k].limiting_parameters = {}

(* C5: the decision is a function of the overall class alone: a sample of   *)
(* overall class 1 gets 'gjenbruk' and one of overall class 2..5 'deponi',  *)
(* from dataframes.create_decisions_df and from schema.create_decisions_df. *)
C5_DecisionFromOverallTier ==
  \A routine \in {"dataframes.create_decisions_df", "schema.create_decisions_df"} :
    ReturnedTable(routine) =>
      \A k \in DOMAIN out.samples_df :
        LET sample_id == out.samples_df[k]
            overall == OverallOf(sample_id)
        IN  overall # None =>
              /\ out.ret.raised = ""
              /\ \E j \in DOMAIN out.ret.rows :
                   /\ out.ret.rows[j].sample_id = sample_id
                   /\ out.ret.rows[j].decision =
                        IF overall = Some(1) THEN Some("gjenbruk") ELSE Some("deponi")

\* the sample whose only result is As = 51.9 mg/kg
OnlyAs519 == pc \in {"returned", "done"} /\ results = ("As" :> Dec(51, 90000))

(* C6: the sample whose only result is As = 51.9 mg/kg is of class 4 for    *)
(* thresholds.get_sample_tilstandsklasse and for                            *)
(* chemistry.classify_sample_results, and its decision is 'deponi'.         *)
C6_As519IsClass4 ==
  OnlyAs519 =>
    /\ worst_class = 4
    /\ out.routine = "get_sample_tilstandsklasse" => out.ret[1] = 4
    /\ out.routine = "chemistry.classify_sample_results" => out.ret.tilstandsklasse = "IV"
    /\ (ReturnedTable("dataframes.create_decisions_df") /\ out.samples_df = <<SampleId>>)
         => /\ out.ret.raised = ""
            /\ out.ret.rows[1].decision = Some("deponi")

----------------------------------------------------------------------------
\* whether a table held the label of the first call
Resolved == Lookup(normalizer, raw_label)[2]

\* C7: for every key L of PARAMETER_ALIASES, normalize_parameter_name(L)
\* returns the code the table maps L to.
C7_AliasKeyGivesItsCode ==
  (normalizer = "normalize_parameter_name" /\ raw_label \in DOMAIN PARAMETER_ALIASES)
    => code = PARAMETER_ALIASES[raw_label]

\* C8: for every key L of PARAMETER_ALIASES, the label padded with whitespace
\* and the label in another letter case normalize to the same code as L.
C8_PaddingAndCaseIrrelevant ==
  (/\ pc = "renormalized"
   /\ normalizer = "normalize_parameter_name"
   /\ raw_label \in DOMAIN PARAMETER_ALIASES
   /\ how \in {"padded", "case"})
    => code2 = code

\* C9: a label that resolves to a code resolves to the same code when it
\* carries the marker '^' or '*' at its end, by normalize_parameter_name and
\* by get_parameter_code.
C9_MarkerIrrelevant ==
  (pc = "renormalized" /\ how = "marker" /\ Resolved) => code2 = code

\* C10: the returned value tells a resolved label from an unresolved one: an
\* unresolved label never returns a canonical code, and a label that
\* resolves is never returned in the form of an unresolved one, so that the
\* test of read_sheet, returned code = raw label, keeps every column whose
\* label resolves.
C10_ResolvedTellsFromValue ==
  normalizer # "" =>
    /\ ~Resolved => code \notin CanonicalCodes
    /\ Resolved => code # strip(raw_label)
    /\ (normalizer = "read_sheet" /\ Resolved /\ raw_label \notin SKIP_COLUMNS) => how = "kept"

----------------------------------------------------------------------------
\* the value, the below-limit flag and the loq of what the parser or the
\* builder returned; a pair has no loq and no record has none of the three
ValueParsers == {"chemistry.parse_value", "p01.parse_value", "p18.parse_value"}

ResultBuilders == {"_build_als_result", "format_result_for_csv"}

ReturnedValue ==
  IF parser \in ValueParsers THEN parsed[1]
  ELSE IF parsed = None THEN None ELSE parsed[1].value

ReturnedBelowLimit ==
  IF parser \in ValueParsers THEN parsed[2]
  ELSE IF parsed = None THEN FALSE ELSE parsed[1].below_limit

ReturnedLoq ==
  IF parser \in ValueParsers THEN (IF Len(parsed) >= 3 THEN parsed[3] ELSE None)
  ELSE IF parsed = None THEN None ELSE parsed[1].loq

\* the raw value without the whitespace around it and without its
\* below-limit marker
HasMarker(raw) == startswith(strip(raw), <<"<">>) \/ startswith(strip(raw), <<"&", "l", "t", ";">>)

Unmarked(raw) ==
  LET s == strip(raw)
  IN  IF startswith(s, <<"&", "l", "t", ";">>) THEN strip(SubSeq(s, 5, Len(s)))
      ELSE IF startswith(s, <<"<">>) THEN strip(Tail(s))
      ELSE s

\* the number that follows the marker
LimitOf(raw) == float(replace(Unmarked(raw), ",", <<".">>))

\* C11: a raw value that starts with '<' or '&lt;' followed by a parseable
\* number x is parsed to value x, below_limit true and loq x.
C11_BelowLimitGivesLimit ==
  (/\ pc = "parsed"
   /\ parser \in {"chemistry.parse_value", "p01.parse_value", "_build_als_result"}
   /\ HasMarker(raw_value)
   /\ LimitOf(raw_value) # ValueError)
    => /\ ReturnedValue = LimitOf(raw_value)
       /\ ReturnedBelowLimit
       /\ ReturnedLoq = LimitOf(raw_value)

\* C12: a raw value that is, ignoring case, one of the not-detected tokens is
\* parsed to value 0.0, below_limit true and no loq.
C12_NotDetectedGivesZero ==
  (/\ pc = "parsed"
   /\ parser \in {"chemistry.parse_value", "p01.parse_value", "_build_als_result"}
   /\ lower(raw_value) \in NotDetected)
    => /\ ReturnedValue = Zero
       /\ ReturnedBelowLimit
       /\ ReturnedLoq = None

\* the raw value is no number after the normalization of decimal comma,
\* spaces and trailing unit, and no not-detected token
Unparseable(raw) ==
  /\ lower(Unmarked(raw)) \notin NotDetected
  /\ float(drop_trailing(replace(replace(Unmarked(raw), ",", <<".">>), " ", << >>),
                         Letters \cup {"/"})) = ValueError

\* C13: a raw value that is missing, empty or not parseable as a number is
\* parsed to no value, below_limit false and no loq, and no value is ever
\* returned as below the limit without being there.
C13_UnparseableGivesNothing ==
  (pc = "parsed" /\ parser \in {"chemistry.parse_value", "p18.parse_value"})
    => /\ Unparseable(raw_value) =>
            ReturnedValue = None /\ ~ReturnedBelowLimit /\ ReturnedLoq = None
       /\ ~(ReturnedBelowLimit /\ ReturnedValue = None)

\* C14: every record a result builder returns with below_limit true has a
\* loq, and its value is the loq.
C14_BelowLimitHasLoq ==
  (pc = "parsed" /\ parser \in ResultBuilders /\ parsed # None /\ ReturnedBelowLimit)
    => ReturnedLoq # None /\ ReturnedValue = ReturnedLoq
----------------------------------------------------------------------------
\* the conversion table of the converter that was called
TableOf(c) == IF c = "chemistry.convert_units" THEN UNIT_CONVERSIONS ELSE CONCENTRATION_TO_MGKG

\* the factor of a unit label: that of the key which is the trimmed label in
\* lower case, 1.0 for a label without key
Factor(table, label) ==
  IF \E k \in DOMAIN table : k = lower(strip(label))
  THEN literal_value(table[CHOOSE k \in DOMAIN table : k = lower(strip(label))])
  ELSE Float(1, 1)

Converters == {"conversions.convert_units", "chemistry.convert_units"}

\* C15: convert_units returns value * factor(from_unit) / factor(to_unit),
\* each factor looked up for the trimmed label without regard to case and 1.0
\* for a unit that is not in the table; an unknown unit converted to mg/kg is
\* returned unchanged.
C15_ConvertByFactors ==
  (pc = "converted" /\ converter \in Converters /\ amount # None)
    => /\ converted = fdiv(fmul(amount, Factor(TableOf(converter), from_label)),
                           Factor(TableOf(converter), to_label))
       /\ (lower(strip(from_label)) \notin DOMAIN TableOf(converter) /\ to_label = <<"m", "g", "/", "k", "g">>)
            => converted = amount

C15_Witness ==
  /\ pc = "converted"
  /\ converter = "conversions.convert_units"
  /\ amount = Float(519, 10)
  /\ from_label = <<"U", "g", "/", "K", "g">>
  /\ to_label = <<"%">>
  /\ converted = fdiv(fmul(Float(519, 10), Float(1, 1000)), Float(10000, 1))

\* a and b differ by at most 2^-30 of the greater one
Close(a, b) ==
  \/ a = b
  \/ /\ a # FloatZero
     /\ b # FloatZero
     /\ LET e == IF a[2] < b[2] THEN a[2] ELSE b[2]
            x == shl(a[1], a[2] - e)
            y == shl(b[1], b[2] - e)
        IN  IF less(x, y) THEN ~less(y, shl(sub(y, x), 30)) ELSE ~less(x, shl(sub(x, y), 30))

\* C16: for known units A and B, the conversion of a value from A to A
\* returns the value, and its conversion from A to B and back returns the
\* value within floating-point tolerance.
C16_RoundTrip ==
  (/\ converter = "conversions.convert_units"
   /\ amount # None
   /\ from_label \in DOMAIN CONCENTRATION_TO_MGKG
   /\ to_label \in DOMAIN CONCENTRATION_TO_MGKG)
    => /\ (pc = "converted" /\ from_label = to_label) => converted = amount
       /\ pc = "converted back" => Close(back, amount)

\* the units of the liquid table only
LiquidUnits == DOMAIN CONCENTRATION_TO_MGL \ DOMAIN CONCENTRATION_TO_MGKG

\* C17: a value in a unit of the liquid table is converted to mg/l by the
\* factor of the unit in the liquid table, by convert_units and by the
\* normalization of the merged results.
C17_LiquidsToMgl ==
  (/\ amount # None
   /\ from_label \in LiquidUnits
   /\ \/ pc = "converted" /\ converter = "conversions.convert_units" /\ to_label = <<"m", "g", "/", "l">>
      \/ pc = "value normalized")
    => converted = fmul(amount, literal_value(CONCENTRATION_TO_MGL[from_label]))
----------------------------------------------------------------------------
\* the cell of a column in the table made from a dict
CellOf(row, c) == IF has_key(row, c) THEN item(row, c) ELSE None

\* the table has exactly the columns of the results schema, in their order,
\* and a row for every dict, with the values of the dict and nothing where
\* the dict has no value
HasResultsSchema(df, rows) ==
  /\ df.raised = ""
  /\ df.columns = RESULTS_COLUMNS
  /\ DOMAIN df.rows = DOMAIN rows
  /\ \A k \in DOMAIN rows :
       /\ DOMAIN df.rows[k] = {RESULTS_COLUMNS[j] : j \in DOMAIN RESULTS_COLUMNS}
       /\ \A c \in DOMAIN df.rows[k] : df.rows[k][c] = CellOf(rows[k], c)

\* C18: for any list of row records, create_results_df returns a table with
\* exactly the columns of RESULTS_COLUMNS in their order: columns the records
\* lack are added empty and columns that are not of the schema are dropped.
C18_ResultsColumnsExact ==
  pc = "frame created" => HasResultsSchema(frame, input_rows)
----------------------------------------------------------------------------
\* the samples of the table of the last call, each once
DistinctSamples == Unique(out.samples_df)

\* the table returned by the last call has exactly the columns of the
\* decisions schema, in their order, and a row for every distinct sample
HasDecisionsSchema ==
  /\ out.ret.raised = ""
  /\ out.ret.columns = DECISIONS_COLUMNS
  /\ Len(out.ret.rows) = Len(DistinctSamples)
  /\ \A k \in DOMAIN out.ret.rows :
       /\ DOMAIN out.ret.rows[k] = {DECISIONS_COLUMNS[j] : j \in DOMAIN DECISIONS_COLUMNS}
       /\ out.ret.rows[k].sample_id = DistinctSamples[k]

(* C19: for any samples table and any results table with a class for every *)
(* result, create_decisions_df of lib/dataframes.py and of lib/schema.py    *)
(* completes without error and returns one row for every distinct sample    *)
(* id, with exactly the columns sample_id, decision, decision_remarks,      *)
(* destination and notes, in that order.                                    *)
C19_DecisionsTable ==
  \A routine \in {"dataframes.create_decisions_df", "schema.create_decisions_df"} :
    ReturnedTable(routine) => HasDecisionsSchema

----------------------------------------------------------------------------
----------------------------------------------------------------------------
\* the parameter of the last call of the classifier, alone or from the loop
\* of get_sample_tilstandsklasse, is not a key of the threshold table
UnknownClassified ==
  /\ pc \in {"classified", "loop"}
  /\ parameter # None
  /\ parameter[1] \notin DOMAIN TILSTANDSKLASSER

(* C21: for a parameter that is not a key of the threshold table the        *)
(* classifier returns None (undetermined) for every value, without an       *)
(* error, and an item of such a parameter leaves the overall class and the  *)
(* limiting parameters of the sample as they were.                          *)
C21_UnknownIsUndetermined ==
  /\ [](UnknownClassified => tk = None)
  /\ [][(pc = "loop" /\ pc' = "loop" /\ idx' = idx + 1
          /\ order[idx + 1] \notin DOMAIN TILSTANDSKLASSER)
         => (worst_class' = worst_class /\ limiting_params' = limiting_params)]_vars

\* an unknown parameter has come up in a sample that is already of class 4
C21_Witness ==
  /\ pc = "loop"
  /\ parameter = Some(UnknownParameter)
  /\ tk = None
  /\ worst_class = 4
  /\ limiting_params # << >>

\* the boundaries of B that are defined do not decrease
NonDecreasing(B) ==
  \A i \in DOMAIN B : \A j \in DOMAIN B :
    (i < j /\ B[i] # None /\ B[j] # None) => LE(B[i], B[j])

(* C22: every entry of TILSTANDSKLASSER of lib/thresholds.py and of          *)
(* lib/chemistry.py defines its first boundary, and the boundaries it       *)
(* defines do not decrease from class 1 to class 5; the tables are those    *)
(* the classifier reads when it is called.                                  *)
C22_BoundariesNonDecreasing ==
  pc = "classified" =>
    /\ \A p \in DOMAIN TILSTANDSKLASSER :
         LET th == TILSTANDSKLASSER[p]
         IN  th.TK1 # None /\ NonDecreasing(<<th.TK1, th.TK2, th.TK3, th.TK4, th.TK5>>)
    /\ \A p \in DOMAIN chemistry_TILSTANDSKLASSER :
         LET limits == chemistry_TILSTANDSKLASSER[p]
         IN  limits.I # None
             /\ NonDecreasing(<<limits.I, limits.II, limits.III, limits.IV, limits.V>>)

\* the classifier has met an entry that defines its first boundary only,
\* with the value on that boundary
C22_Witness ==
  /\ pc = "classified"
  /\ parameter = Some("Toluen")
  /\ TILSTANDSKLASSER["Toluen"].TK2 = None
  /\ value = TILSTANDSKLASSER["Toluen"].TK1
  /\ tk = Some(1)

\* the class get_tilstandsklasse returns, by the name classify_contamination
\* gives it
ClassName(t) ==
  IF t = None THEN "Unknown"
  ELSE (1 :> "I" @@ 2 :> "II" @@ 3 :> "III" @@ 4 :> "IV" @@ 5 :> "V")[t[1]]

(* C24: for every parameter code and value, classify_contamination of       *)
(* lib/chemistry.py returns class I, II, III, IV or V exactly when          *)
(* get_tilstandsklasse of lib/thresholds.py returns 1, 2, 3, 4 or 5, and    *)
(* 'Unknown' exactly when the other returns None.                           *)
C24_ClassifiersAgree ==
  (pc = "classified" /\ Called) =>
    classify_contamination(parameter[1], value) = ClassName(tk)

(* C25: when get_sample_tilstandsklasse returns class 1 for a sample, no    *)
(* parameter of the sample has a value above its normverdi:                 *)
(* exceeds_normverdi is true for none of its items.                         *)
C25_Class1WithinNormverdi ==
  (pc = "returned" /\ out.routine = "get_sample_tilstandsklasse" /\ out.ret[1] = 1) =>
    \A p \in DOMAIN results : exceeds_normverdi(p, results[p]) # Some(TRUE)

(* C26: every key of TILSTANDSKLASSER of lib/thresholds.py is the code of   *)
(* at least one label of the maps the normalizer looks labels up in, so     *)
(* that what a call of the normalizer returns for a regulated substance is  *)
(* a key of the threshold table.                                            *)
C26_ThresholdKeysAreCodes ==
  pc = "normalized" =>
    \A p \in DOMAIN TILSTANDSKLASSER : Spelling[p] \in CanonicalCodes

(* C27: for every value and every pair of unit labels, convert_units of     *)
(* lib/chemistry.py and convert_units of lib/conversions.py return the same *)
(* result, the liquid units 'mg/l' and 'µg/l' included.                     *)
C27_ConvertersAgree ==
  pc = "converted" =>
    chemistry_convert_units(amount, from_label, to_label)
      = convert_units(amount, from_label, to_label)

(* C28: for every raw label that normalize_parameter_name and               *)
(* get_parameter_code both resolve, the two functions return the same code. *)
C28_EntryPointsAgree ==
  (/\ pc = "normalized"
   /\ normalize_lookup(raw_label)[2]
   /\ get_parameter_code_lookup(raw_label)[2])
    => normalize_parameter_name(raw_label) = get_parameter_code(raw_label)

\* get_sample_tilstandsklasse on the dict r with its items in the order ord:
\* the locals after the loop
RECURSIVE AfterLoop(_, _)
AfterLoop(r, ord) ==
  IF Len(ord) = 0 THEN <<1, << >> >>
  ELSE LET before == AfterLoop(r, SubSeq(ord, 1, Len(ord) - 1))
           param == ord[Len(ord)]
       IN  loop_body(before[1], before[2], param, r[param])

(* C29: what get_sample_tilstandsklasse returns does not depend on the      *)
(* order of the items of the sample: for every other order of the same      *)
(* dict the overall class is the same and the limiting parameters are the   *)
(* same set, and no parameter is listed twice.                              *)
C29_OrderIrrelevant ==
  (pc = "returned" /\ out.routine = "get_sample_tilstandsklasse") =>
    /\ out.ret = AfterLoop(results, order)
    /\ Len(out.ret[2]) = Cardinality(Range(out.ret[2]))
    /\ \A other \in Orders(DOMAIN results) :
         /\ AfterLoop(results, other)[1] = out.ret[1]
         /\ Range(AfterLoop(results, other)[2]) = Range(out.ret[2])

\* three parameters, two of them of the worst class 4, the third below
C29_Witness ==
  /\ pc = "returned"
  /\ out.routine = "get_sample_tilstandsklasse"
  /\ Cardinality(DOMAIN results) = 3
  /\ out.ret[1] = 4
  /\ Len(out.ret[2]) = 2
  /\ order[1] \notin Range(out.ret[2])

----------------------------------------------------------------------------
\* the scripts run_project has loaded so far
Attempted == {attempts[k][1] : k \in DOMAIN attempts}

(* C23: run_all eventually attempts every available project script and      *)
(* reaches its 'all complete' end, also when the extraction of a project    *)
(* fails because its script has no run() or because run() raises.           *)
C23_BatchCompletes ==
  (pc = "batch") ~> (pc = "all complete" /\ Attempted = Range(listing))

(* C30: run_all runs each available project script exactly once: every      *)
(* script of the directory itself, and not another script with the same     *)
(* project number, has been loaded once when the batch is complete.         *)
C30_EachScriptOnce ==
  pc = "all complete" =>
    \A script \in Range(listing) :
      Cardinality({k \in DOMAIN attempts : attempts[k][1] = script}) = 1

====
